---- MODULE Spec2Model ----
(***************************************************************************)
(* Crypto_Trade_Backtester: the per-bar simulation loops of                *)
(*   src/Backtest_MA_Crossover.py  (backtest_partial_accumulation_with_    *)
(*                                  dd_and_partial_sells)                  *)
(*   src/Crypto_Trade_Backtest.py  (simulate_strategy)                     *)
(*                                                                         *)
(* Numbers.  The Python code computes in binary floating point.  The model *)
(* computes the same expressions in exact rational arithmetic: a number is *)
(* a pair <<n, d>> with d > 0 and gcd(n, d) = 1.  <<0, 0>> stands for the  *)
(* values that are no number (pandas' NaN, Python's None).                 *)
(*                                                                         *)
(* Data.  The DataFrame is given to the code as a whole; the moving        *)
(* averages at row t depend on rows 0..t only, so the model reveals the    *)
(* closes one bar at a time and lets the data end after any bar.           *)
(* Timestamps are strictly increasing; row t has timestamp t.              *)
(*                                                                         *)
(* Settings.  The scripts' USER-DEFINED SETTINGS are the record cfg, fixed *)
(* by Init; each specification draws it from its own set of settings.      *)
(*                                                                         *)
(* run_optimization of src/Crypto_Trade_Backtest.py (the parameter grid    *)
(* and the worker pool) and repeated calls of simulate_strategy on one     *)
(* DataFrame are modelled after the loops.                                 *)
(***************************************************************************)
EXTENDS Integers, Sequences, FiniteSets, TLC

VARIABLES
    cfg,                 \* the settings of the run (module-level constants / params)
    closes,              \* df["close"] revealed so far (integers)
    df_ma,               \* df["short_ma"], df["mid_ma"], df["long_ma"] over the same rows
    i,                   \* loop index of the bar in hand (0-based, as in the code)
    pc,                  \* position inside the loop body
    balance,
    open_positions,
    closed_trades,
    equity_curve,
    buy_and_hold_curve,
    max_open_positions,
    partial_plan,
    last_buy_price,
    peak_equity,
    next_trade_value,
    cross_down,          \* the local cross_down of the bar in hand
    trades,              \* simulate_strategy's trade record
    results,             \* the returned dict (<< >> until the function returns)
    cycle,               \* history variable: the bookkeeping of the latest plan
    last_call,           \* history variable: the arguments of the latest ledger call
    combinations,        \* run_optimization's list of parameter tuples
    pool,                \* the Pool of run_optimization: tasks, finished tasks, return value
    data,                \* the DataFrame a caller passes to simulate_strategy
    earlier,             \* history variable: the calls of simulate_strategy that returned
    position_held,       \* backtest_strategy's position (Crypto_Trade_Backtest_Overfitted.py)
    trade_log,           \* backtest_strategy's trade log
    sample,              \* run_random_iterations: the sample of the iteration in hand
    iteration,           \* run_random_iterations: the loop index
    aggregated_results,  \* the result rows run_random_iterations collects and saves
    grouped              \* aggregate_overall_results: the ranked table

vars == <<cfg, closes, df_ma, i, pc, balance, open_positions, closed_trades, equity_curve,
          buy_and_hold_curve, max_open_positions, partial_plan, last_buy_price,
          peak_equity, next_trade_value, cross_down, trades, results, cycle, last_call,
          combinations, pool, data, earlier,
          position_held, trade_log, sample, iteration, aggregated_results, grouped>>

-----------------------------------------------------------------------------
(* Bounds of the model *)

\* longest price series of a backtest_partial_accumulation... run
MaxBars == 7

\* longest price series of a simulate_strategy run
MaxBarsSim == 10

\* the closes a bar may take
Prices == {4, 5, 6}

\* most calls of a ledger run
MaxCalls == 3

\* the prices and the trade values a ledger call may be given
LedgerPrices == {4, 6}

Notionals == {<<-50, 1>>, <<0, 1>>, <<600, 1>>}

-----------------------------------------------------------------------------
(* Exact rational arithmetic *)

Abs(n) == IF n < 0 THEN -n ELSE n

RECURSIVE GCD(_, _)
GCD(a, b) == IF b = 0 THEN a ELSE GCD(b, a % b)

Norm(n, d) ==
    LET g == GCD(Abs(n), d)
    IN  IF g = 0 THEN <<0, 1>> ELSE <<n \div g, d \div g>>

R(n) == <<n, 1>>

Frac(n, d) == Norm(n, d)

RZero == <<0, 1>>

ROne == <<1, 1>>

RNeg(a) == <<-a[1], a[2]>>

RAdd(a, b) ==
    LET g == GCD(a[2], b[2])
    IN  Norm(a[1] * (b[2] \div g) + b[1] * (a[2] \div g), (a[2] \div g) * b[2])

RSub(a, b) == RAdd(a, RNeg(b))

RMul(a, b) ==
    LET g1 == GCD(Abs(a[1]), b[2])
        g2 == GCD(Abs(b[1]), a[2])
    IN  IF a[1] = 0 \/ b[1] = 0 THEN <<0, 1>>
        ELSE <<(a[1] \div g1) * (b[1] \div g2), (a[2] \div g2) * (b[2] \div g1)>>

RInv(a) == IF a[1] < 0 THEN <<-a[2], -a[1]>> ELSE <<a[2], a[1]>>

RDiv(a, b) == RMul(a, RInv(b))

\* sign of n1/d1 - n2/d2 (d1, d2 > 0), by the Euclidean expansion of both:
\* no product is formed, so the comparison cannot overflow
RECURSIVE CmpFrac(_, _, _, _)
CmpFrac(n1, d1, n2, d2) ==
    LET q1 == n1 \div d1
        q2 == n2 \div d2
        r1 == n1 - q1 * d1
        r2 == n2 - q2 * d2
    IN  IF q1 # q2 THEN (IF q1 < q2 THEN -1 ELSE 1)
        ELSE IF r1 = 0 /\ r2 = 0 THEN 0
        ELSE IF r1 = 0 THEN -1
        ELSE IF r2 = 0 THEN 1
        ELSE CmpFrac(d2, r2, d1, r1)

RCmp(a, b) == CmpFrac(a[1], a[2], b[1], b[2])

RLt(a, b) == RCmp(a, b) < 0

RLe(a, b) == RCmp(a, b) <= 0

RGt(a, b) == RCmp(a, b) > 0

RGe(a, b) == RCmp(a, b) >= 0

RMin(a, b) == IF RLe(a, b) THEN a ELSE b

\* x / 100.0
Pct(x) == RDiv(x, R(100))

RECURSIVE RSum(_)
RSum(s) == IF s = << >> THEN RZero ELSE RAdd(Head(s), RSum(Tail(s)))

\* pandas' NaN
NaN == <<0, 0>>

\* Python's None where a number is expected
None == <<0, 0>>

isna(x) == x = NaN

Max3(a, b, c) ==
    LET m == IF a > b THEN a ELSE b
    IN  IF m > c THEN m ELSE c

-----------------------------------------------------------------------------
(* Pure functions of Backtest_MA_Crossover.py *)

\* a variant that averages the rows there are when fewer than `window` exist
SmaAtFromFirstRow(prices, window, t) ==
    LET n == IF t < window THEN t ELSE window
    IN  RDiv(RSum([k \in 1..n |-> R(prices[t - n + k])]), R(n))

\* prices.rolling(window).mean() at row t (1-based): NaN before `window` rows
SmaAt(prices, window, t) ==
    IF t < window THEN NaN
    ELSE RDiv(RSum([k \in 1..window |-> R(prices[t - window + k])]), R(window))

\* prices.ewm(span=window, adjust=False).mean() at row t (1-based)
RECURSIVE EmaAt(_, _, _)
EmaAt(prices, window, t) ==
    LET alpha == Frac(2, window + 1)
    IN  IF t = 1 THEN R(prices[1])
        ELSE RAdd(RMul(alpha, R(prices[t])),
                  RMul(RSub(ROne, alpha), EmaAt(prices, window, t - 1)))

\* str.lower() on the names of kinds the model uses
lower(ma_type) ==
    CASE ma_type = "SMA" -> "sma"
      [] ma_type = "EMA" -> "ema"
      [] OTHER -> ma_type

\* lines 55-56: calculate_ma raises ValueError for any other kind
calculate_ma_raises(ma_type) == lower(ma_type) \notin {"sma", "ema"}

\* calculate_ma where it returns: the series aligned to the rows of prices
calculate_ma(prices, window, ma_type) ==
    [t \in 1..Len(prices) |->
        IF lower(ma_type) = "sma" THEN SmaAt(prices, window, t)
        ELSE EmaAt(prices, window, t)]

\* lines 87-89: the three columns over the rows revealed so far.  The value of a
\* column at a row depends on the closes up to that row only, so each new row
\* appends the last value of the series computed over the rows so far.
BT_Columns(prices) ==
    LET n == Len(prices)
    IN  [short_ma |-> Append(df_ma.short_ma,
                             calculate_ma(prices, cfg.SHORT_MA_LENGTH, cfg.MA_TYPE)[n]),
         mid_ma |-> Append(df_ma.mid_ma,
                           calculate_ma(prices, cfg.MID_MA_LENGTH, cfg.MA_TYPE)[n]),
         long_ma |-> Append(df_ma.long_ma,
                            calculate_ma(prices, cfg.LONG_MA_LENGTH, cfg.MA_TYPE)[n])]

NoColumns == [short_ma |-> << >>, mid_ma |-> << >>, long_ma |-> << >>]

\* df["short_ma"].iloc[k], df["mid_ma"].iloc[k], df["long_ma"].iloc[k]  (k 0-based)
short_ma(k) == df_ma.short_ma[k + 1]

mid_ma(k) == df_ma.mid_ma[k + 1]

long_ma(k) == df_ma.long_ma[k + 1]

\* df["close"].iloc[k]  (k 0-based)
close(k) == R(closes[k + 1])

\* a variant of compute_equity that values each position at its buy price
compute_equity_at_cost(bal, positions, current_price) ==
    RAdd(bal, RSum([k \in 1..Len(positions) |->
                       RMul(positions[k].size, positions[k].buy_price)]))

compute_equity(bal, positions, current_price) ==
    LET pos_value == RSum([k \in 1..Len(positions) |->
                              RMul(positions[k].size, current_price)])
    IN  RAdd(bal, pos_value)

\* a variant of the loop that keeps the first value as its peak
RECURSIVE DrawdownLoopFixedPeak(_, _, _, _)
DrawdownLoopFixedPeak(curve, k, peak, max_dd) ==
    IF k > Len(curve) THEN max_dd
    ELSE LET dd == RDiv(RSub(peak, curve[k]), peak)
         IN  DrawdownLoopFixedPeak(curve, k + 1, peak,
                                   IF RGt(dd, max_dd) THEN dd ELSE max_dd)

\* the loop of calculate_max_drawdown over equity_curve[k..], carrying (peak, max_dd)
RECURSIVE DrawdownLoop(_, _, _, _)
DrawdownLoop(curve, k, peak, max_dd) ==
    IF k > Len(curve) THEN max_dd
    ELSE LET eq == curve[k]
             peak1 == IF RGt(eq, peak) THEN eq ELSE peak
             dd == RDiv(RSub(peak1, eq), peak1)
             max1 == IF RGt(dd, max_dd) THEN dd ELSE max_dd
         IN  DrawdownLoop(curve, k + 1, peak1, max1)

calculate_max_drawdown(curve) ==
    IF curve = << >> THEN RZero
    ELSE RMul(DrawdownLoop(curve, 1, curve[1], RZero), R(100))

\* 1e-8, the size below which a position counts as closed
EPSILON == Frac(1, 100000000)

\* list.remove(x): drops the first element equal to x
RECURSIVE Remove(_, _)
Remove(s, x) ==
    IF s = << >> THEN << >>
    ELSE IF Head(s) = x THEN Tail(s)
    ELSE <<Head(s)>> \o Remove(Tail(s), x)

\* a variant of do_buy_trade without the reduction of lines 121-124
do_buy_trade_unreduced(L, trade_value, current_price, timestamp) ==
    IF RLe(trade_value, RZero) \/ RLe(L.balance, RZero) THEN L
    ELSE
      LET tv == RMin(trade_value, L.balance)
          actual_buy_price == RMul(current_price, RAdd(ROne, cfg.SLIPPAGE))
          buy_fee == RMul(tv, cfg.FEE_RATE)
      IN  [balance |-> RSub(L.balance, RAdd(tv, buy_fee)),
           open_positions |-> Append(L.open_positions,
               [timestamp_open |-> timestamp,
                buy_price |-> current_price,
                effective_buy_price |-> actual_buy_price,
                size |-> RDiv(tv, actual_buy_price),
                buy_fee |-> buy_fee]),
           last_buy_price |-> current_price]

\* do_buy_trade on the ledger L = [balance, open_positions, last_buy_price]
do_buy_trade(L, trade_value, current_price, timestamp) ==
    IF RLe(trade_value, RZero) \/ RLe(L.balance, RZero) THEN L
    ELSE
      LET tv == RMin(trade_value, L.balance)
          actual_buy_price == RMul(current_price, RAdd(ROne, cfg.SLIPPAGE))
          fee0 == RMul(tv, cfg.FEE_RATE)
          over == RGt(RAdd(tv, fee0), L.balance)
          cost_before_fee == IF over THEN RDiv(L.balance, RAdd(ROne, cfg.FEE_RATE)) ELSE tv
          buy_fee == RMul(cost_before_fee, cfg.FEE_RATE)
          total_cost == RAdd(cost_before_fee, buy_fee)
          size == RDiv(cost_before_fee, actual_buy_price)
      IN  [balance |-> RSub(L.balance, total_cost),
           open_positions |-> Append(L.open_positions,
               [timestamp_open |-> timestamp,
                buy_price |-> current_price,
                effective_buy_price |-> actual_buy_price,
                size |-> size,
                buy_fee |-> buy_fee]),
           last_buy_price |-> current_price]

\* a variant of do_partial_sell without the size update of lines 169-171
do_partial_sell_keeping_size(position, sell_ratio, current_price, timestamp) ==
    LET actual_sell_price == RMul(current_price, RSub(ROne, cfg.SLIPPAGE))
        sell_size == RMul(position.size, sell_ratio)
        proceeds_before_fee == RMul(sell_size, actual_sell_price)
        sell_fee == RMul(proceeds_before_fee, cfg.FEE_RATE)
        net_proceeds == RSub(proceeds_before_fee, sell_fee)
        buy_cost_for_this_sell == RMul(sell_size, position.effective_buy_price)
    IN  [net_proceeds |-> net_proceeds,
         closed_trade |->
             [timestamp_open |-> position.timestamp_open,
              timestamp_close |-> timestamp,
              buy_price |-> position.buy_price,
              effective_buy_price |-> position.effective_buy_price,
              sell_price |-> current_price,
              effective_sell_price |-> actual_sell_price,
              size |-> sell_size,
              buy_fee |-> position.buy_fee,
              sell_fee |-> sell_fee,
              gross_pnl |-> RSub(proceeds_before_fee, buy_cost_for_this_sell),
              net_pnl |-> RSub(net_proceeds, buy_cost_for_this_sell),
              holding_days |-> timestamp - position.timestamp_open],
         position |-> position]

\* do_partial_sell: the balance credited, the ClosedTrade appended and the position
\* as the call leaves it
do_partial_sell(position, sell_ratio, current_price, timestamp) ==
    LET actual_sell_price == RMul(current_price, RSub(ROne, cfg.SLIPPAGE))
        sell_size == RMul(position.size, sell_ratio)
        proceeds_before_fee == RMul(sell_size, actual_sell_price)
        sell_fee == RMul(proceeds_before_fee, cfg.FEE_RATE)
        net_proceeds == RSub(proceeds_before_fee, sell_fee)
        buy_cost_for_this_sell == RMul(sell_size, position.effective_buy_price)
        left == RSub(position.size, sell_size)
    IN  [net_proceeds |-> net_proceeds,
         closed_trade |->
             [timestamp_open |-> position.timestamp_open,
              timestamp_close |-> timestamp,
              buy_price |-> position.buy_price,
              effective_buy_price |-> position.effective_buy_price,
              sell_price |-> current_price,
              effective_sell_price |-> actual_sell_price,
              size |-> sell_size,
              buy_fee |-> position.buy_fee,
              sell_fee |-> sell_fee,
              gross_pnl |-> RSub(proceeds_before_fee, buy_cost_for_this_sell),
              net_pnl |-> RSub(net_proceeds, buy_cost_for_this_sell),
              holding_days |-> timestamp - position.timestamp_open],
         position |-> [position EXCEPT !.size = IF RLt(left, EPSILON) THEN RZero ELSE left]]

-----------------------------------------------------------------------------
(* backtest_partial_accumulation_with_dd_and_partial_sells *)

\* The USER-DEFINED SETTINGS of Backtest_MA_Crossover.py (lines 13-36), as the
\* script sets them, except for the three lengths: 18, 27, 40 in the script, 2, 3, 4
\* here, so that the indicators are ready within MaxBars.  MA_TYPE stands for
\* SHORT_MA_TYPE, MID_MA_TYPE and LONG_MA_TYPE, which the script sets alike.
BT_ScriptSettings ==
    [SHORT_MA_LENGTH |-> 2, MID_MA_LENGTH |-> 3, LONG_MA_LENGTH |-> 4,
     MA_TYPE |-> "ema",
     PRICE_THRESHOLD |-> Frac(1, 100),
     INITIAL_BALANCE |-> 1000,
     POSITION_SIZE_PERCENT |-> R(15),
     TAKE_PROFIT_PERCENT |-> R(9000),
     REENTRY_GAP_PERCENT |-> R(12),
     SLIPPAGE |-> Frac(5, 10000),
     FEE_RATE |-> RZero,
     CLOSE_PROFIT_BUFFER_PERCENT |-> R(5),
     CLOSE_ALL_ON_CROSSDOWN |-> FALSE,
     MAX_OPEN_TRADES |-> 15,
     ACCUMULATION_STEPS |-> 2,
     CLOSE_PROFIT_ON_CROSSDOWN |-> TRUE,
     INCREASE_X_PERCENT |-> RZero]

\* Other values a user may give the same settings: simple averages, a take-profit
\* within reach of the prices, a slippage of 1/4, and the three crossdown policies.
BT_OtherSettings ==
    {[BT_ScriptSettings EXCEPT !.MA_TYPE = "sma",
                               !.TAKE_PROFIT_PERCENT = R(40),
                               !.SLIPPAGE = Frac(1, 4),
                               !.CLOSE_ALL_ON_CROSSDOWN = policy[1],
                               !.CLOSE_PROFIT_ON_CROSSDOWN = policy[2]] :
        policy \in {<<TRUE, TRUE>>, <<FALSE, TRUE>>, <<FALSE, FALSE>>}}

BT_Settings == {BT_ScriptSettings} \cup BT_OtherSettings

\* partial_plan as lines 97-101 and 232-234 set it
IdlePlan == [active |-> FALSE, steps_left |-> 0, remaining_value |-> RZero]

\* get_random_sample's None
NoSample == [returned |-> "None", start_idx |-> 0, end_idx |-> 0, timestamp |-> << >>]

NoCall == [fn |-> "none", notional |-> RZero]

\* no run_optimization in progress
NoPool == [coin_name |-> "", pending |-> {}, faulty |-> {}, finished |-> << >>,
           returned |-> << >>]

\* no DataFrame held by a caller
NoData == [close |-> << >>, columns |-> {}]

NoCycle == [state |-> "none", opened_at |-> 0, opened_value |-> RZero,
            buys |-> 0, spent |-> RZero]

\* lines 82-107: the state the loop starts from, under one of the settings S
BT_InitWith(S) ==
    /\ cfg \in S
    /\ closes = << >>
    /\ df_ma = NoColumns
    /\ i = 0
    /\ pc = "bt_bar"
    /\ balance = R(cfg.INITIAL_BALANCE)
    /\ open_positions = << >>
    /\ closed_trades = << >>
    /\ equity_curve = << >>
    /\ buy_and_hold_curve = << >>
    /\ max_open_positions = 0
    /\ partial_plan = IdlePlan
    /\ last_buy_price = None
    /\ peak_equity = R(cfg.INITIAL_BALANCE)
    /\ next_trade_value = None
    /\ cross_down = FALSE
    /\ trades = << >>
    /\ results = << >>
    /\ cycle = NoCycle
    /\ last_call = NoCall
    /\ combinations = << >>
    /\ pool = NoPool
    /\ data = NoData
    /\ earlier = << >>
    /\ position_held = RZero
    /\ trade_log = << >>
    /\ sample = NoSample
    /\ iteration = 0
    /\ aggregated_results = << >>
    /\ grouped = << >>

BT_Init == BT_InitWith(BT_Settings)

\* current_price and timestamp of the bar in hand (lines 178-179)
current_price == close(i)

timestamp == i

\* lines 177-189: the next row of df; buy & hold and equity snapshots.  cross_down
\* is a local that every ready bar assigns before reading it; the model clears it
\* here so that it always speaks of the bar in hand.
BT_Snapshot(p) ==
    /\ pc = "bt_bar"
    /\ Len(closes) < MaxBars
    /\ LET price == R(p)
           first_price == IF closes = << >> THEN price ELSE R(closes[1])
           buy_and_hold_size == RDiv(R(cfg.INITIAL_BALANCE), first_price)
           current_equity == compute_equity(balance, open_positions, price)
       IN  /\ closes' = Append(closes, p)
           /\ df_ma' = BT_Columns(Append(closes, p))
           /\ i' = Len(closes)
           /\ buy_and_hold_curve' = Append(buy_and_hold_curve, RMul(buy_and_hold_size, price))
           /\ equity_curve' = Append(equity_curve, current_equity)
           /\ peak_equity' = IF RGt(current_equity, peak_equity) THEN current_equity
                             ELSE peak_equity
    /\ cross_down' = FALSE
    /\ pc' = "bt_accumulate"
    /\ UNCHANGED <<position_held, trade_log, sample, iteration, aggregated_results, grouped,
                   combinations, pool, data, earlier, cfg, last_call, balance, open_positions, closed_trades, max_open_positions,
                   partial_plan, last_buy_price, next_trade_value, trades, results, cycle>>

\* 1 + INCREASE_X_PERCENT / 100.0
MartingaleFactor == RAdd(ROne, Pct(cfg.INCREASE_X_PERCENT))

\* a variant of line 193 that splits by the configured number of steps
StepValueByConfiguredSteps(plan) == RDiv(plan.remaining_value, R(cfg.ACCUMULATION_STEPS))

\* line 193
StepValue(plan) == RDiv(plan.remaining_value, R(plan.steps_left))

\* lines 191-204: one step of the active plan
BT_Accumulate ==
    /\ pc = "bt_accumulate"
    /\ IF partial_plan.active /\ partial_plan.steps_left > 0
       THEN LET step_value == StepValue(partial_plan)
                L == do_buy_trade([balance |-> balance, open_positions |-> open_positions,
                                   last_buy_price |-> last_buy_price],
                                  step_value, current_price, timestamp)
                remaining == RSub(partial_plan.remaining_value, step_value)
                steps == partial_plan.steps_left - 1
                bought == Len(L.open_positions) > Len(open_positions)
                new == L.open_positions[Len(L.open_positions)]
            IN  /\ balance' = L.balance
                /\ open_positions' = L.open_positions
                /\ last_buy_price' = L.last_buy_price
                /\ partial_plan' = [active |-> steps # 0, steps_left |-> steps,
                                    remaining_value |-> remaining]
                /\ next_trade_value' =
                       IF steps # 0 THEN next_trade_value
                       ELSE IF next_trade_value = None THEN RAdd(remaining, step_value)
                       ELSE RMul(next_trade_value, MartingaleFactor)
                /\ cycle' = [cycle EXCEPT
                       !.buys = IF bought THEN @ + 1 ELSE @,
                       !.spent = IF bought THEN RAdd(@, RMul(new.size, new.effective_buy_price))
                                 ELSE @,
                       !.state = IF steps = 0 THEN "completed" ELSE @]
       ELSE UNCHANGED <<balance, open_positions, last_buy_price, partial_plan,
                        next_trade_value, cycle>>
    /\ pc' = "bt_take_profit"
    /\ UNCHANGED <<position_held, trade_log, sample, iteration, aggregated_results, grouped,
                   combinations, pool, data, earlier, cfg, last_call, closes, df_ma, i, closed_trades, equity_curve, buy_and_hold_curve,
                   max_open_positions, peak_equity, cross_down, trades, results>>

\* line 207
target_mult == RAdd(ROne, Pct(cfg.TAKE_PROFIT_PERCENT))

\* a variant of lines 209-210 that measures the target from the effective buy price
TakeProfitOverEffectivePrice(pos) ==
    RGe(current_price, RMul(pos.effective_buy_price, target_mult))

\* line 209-210: the position has reached its take-profit price
TakeProfitHit(pos) == RGe(current_price, RMul(pos.buy_price, target_mult))

\* line 244
profit_percent(pos) ==
    RMul(RDiv(RSub(current_price, pos.buy_price), pos.buy_price), R(100))

\* a variant of lines 244-245 that measures the profit from the effective buy price
ProfitOverEffectivePrice(pos) ==
    RGt(RMul(RDiv(RSub(current_price, pos.effective_buy_price), pos.effective_buy_price),
             R(100)),
        cfg.CLOSE_PROFIT_BUFFER_PERCENT)

\* line 245
ProfitAboveBuffer(pos) == RGt(profit_percent(pos), cfg.CLOSE_PROFIT_BUFFER_PERCENT)

\* which positions a loop over open_positions[:] sells: those at their take-profit
\* price (line 210), all of them (lines 237-238), those in profit beyond the
\* buffer (line 245)
Sells(rule, pos) ==
    CASE rule = "take_profit" -> TakeProfitHit(pos)
      [] rule = "all" -> TRUE
      [] rule = "in_profit" -> ProfitAboveBuffer(pos)

\* `for pos in open_positions[:]: if <rule>: do_partial_sell(pos, 1.0, ...);
\*  if pos["size"] < 1e-8: open_positions.remove(pos)` over copy[k..], on the
\* ledger L = [balance, open_positions, closed_trades].  A position sold but not
\* below 1e-8 stays in the list with the size the sale left.
RECURSIVE SellLoop(_, _, _, _, _, _)
SellLoop(L, copy, k, rule, price, ts) ==
    IF k > Len(copy) THEN L
    ELSE IF ~Sells(rule, copy[k]) THEN SellLoop(L, copy, k + 1, rule, price, ts)
    ELSE
      LET s == do_partial_sell(copy[k], ROne, price, ts)
          kept == IF RLt(s.position.size, EPSILON)
                  THEN Remove(L.open_positions, copy[k])
                  ELSE [j \in 1..Len(L.open_positions) |->
                           IF L.open_positions[j] = copy[k] THEN s.position
                           ELSE L.open_positions[j]]
      IN  SellLoop([balance |-> RAdd(L.balance, s.net_proceeds),
                    open_positions |-> kept,
                    closed_trades |-> Append(L.closed_trades, s.closed_trade)],
                   copy, k + 1, rule, price, ts)

\* lines 206-213
BT_TakeProfit ==
    /\ pc = "bt_take_profit"
    /\ LET L == SellLoop([balance |-> balance, open_positions |-> open_positions,
                          closed_trades |-> closed_trades],
                         open_positions, 1, "take_profit", current_price, timestamp)
       IN  /\ balance' = L.balance
           /\ open_positions' = L.open_positions
           /\ closed_trades' = L.closed_trades
    /\ pc' = "bt_signals"
    /\ UNCHANGED <<position_held, trade_log, sample, iteration, aggregated_results, grouped,
                   combinations, pool, data, earlier, cfg, last_call, closes, df_ma, i, equity_curve, buy_and_hold_curve, max_open_positions,
                   partial_plan, last_buy_price, peak_equity, next_trade_value,
                   cross_down, trades, results, cycle>>

\* a variant of lines 216-219 that waits for the short length only
NotReadyForShort ==
    \/ i < cfg.SHORT_MA_LENGTH
    \/ isna(short_ma(i)) \/ isna(mid_ma(i)) \/ isna(long_ma(i))

\* lines 216-219: the bar is one the loop `continue`s on
NotReady ==
    \/ i < Max3(cfg.SHORT_MA_LENGTH, cfg.MID_MA_LENGTH, cfg.LONG_MA_LENGTH)
    \/ isna(short_ma(i)) \/ isna(mid_ma(i)) \/ isna(long_ma(i))

\* lines 215-219: `continue`, which also skips step 8
BT_SkipNotReady ==
    /\ pc = "bt_signals"
    /\ NotReady
    /\ pc' = "bt_bar"
    /\ UNCHANGED <<position_held, trade_log, sample, iteration, aggregated_results, grouped,
                   combinations, pool, data, earlier, cfg, last_call, closes, df_ma, i, balance, open_positions, closed_trades, equity_curve,
                   buy_and_hold_curve, max_open_positions, partial_plan, last_buy_price,
                   peak_equity, next_trade_value, cross_down, trades, results, cycle>>

\* line 224
price_diff == RMul(RDiv(RSub(current_price, close(i - 1)), close(i - 1)), R(100))

\* lines 227-229.  A comparison with NaN is False in Python.
CrossDown ==
    /\ ~isna(short_ma(i - 1)) /\ ~isna(mid_ma(i - 1))
    /\ RLt(short_ma(i), mid_ma(i))
    /\ RGe(short_ma(i - 1), mid_ma(i - 1))

\* a variant of lines 232-234 that only clears the active flag
AbortedPlanKeepingRemainder == [partial_plan EXCEPT !.active = FALSE]

\* lines 232-234
AbortedPlan == [active |-> FALSE, steps_left |-> 0, remaining_value |-> RZero]

\* lines 221-234: the signals of a ready bar; a crossdown aborts the active plan
BT_CrossdownAbort ==
    /\ pc = "bt_signals"
    /\ ~NotReady
    /\ cross_down' = CrossDown
    /\ IF CrossDown /\ partial_plan.active
       THEN /\ partial_plan' = AbortedPlan
            /\ cycle' = [cycle EXCEPT !.state = "aborted"]
       ELSE UNCHANGED <<partial_plan, cycle>>
    /\ pc' = "bt_liquidate"
    /\ UNCHANGED <<position_held, trade_log, sample, iteration, aggregated_results, grouped,
                   combinations, pool, data, earlier, cfg, last_call, closes, df_ma, i, balance, open_positions, closed_trades, equity_curve,
                   buy_and_hold_curve, max_open_positions, last_buy_price, peak_equity,
                   next_trade_value, trades, results>>

\* lines 236-248: the liquidation a crossdown bar applies
BT_CrossdownLiquidate ==
    /\ pc = "bt_liquidate"
    /\ LET L0 == [balance |-> balance, open_positions |-> open_positions,
                  closed_trades |-> closed_trades]
           L == IF ~cross_down THEN L0
                ELSE IF cfg.CLOSE_ALL_ON_CROSSDOWN
                     THEN SellLoop(L0, open_positions, 1, "all", current_price, timestamp)
                ELSE IF cfg.CLOSE_PROFIT_ON_CROSSDOWN
                     THEN SellLoop(L0, open_positions, 1, "in_profit",
                                   current_price, timestamp)
                ELSE L0
       IN  /\ balance' = L.balance
           /\ open_positions' = L.open_positions
           /\ closed_trades' = L.closed_trades
    /\ pc' = "bt_entry"
    /\ UNCHANGED <<position_held, trade_log, sample, iteration, aggregated_results, grouped,
                   combinations, pool, data, earlier, cfg, last_call, closes, df_ma, i, equity_curve, buy_and_hold_curve, max_open_positions,
                   partial_plan, last_buy_price, peak_equity, next_trade_value,
                   cross_down, trades, results, cycle>>

\* a variant of line 251 without the test of the middle average
EntrySignalShortOnly ==
    /\ RGt(short_ma(i), long_ma(i))
    /\ ~partial_plan.active
    /\ RGt(price_diff, cfg.PRICE_THRESHOLD)

\* a variant of line 251 with >= for > that takes any bar that did not fall
EntrySignalNotStrict ==
    /\ RGe(short_ma(i), long_ma(i))
    /\ RGe(mid_ma(i), long_ma(i))
    /\ ~partial_plan.active
    /\ RGe(price_diff, RZero)

\* line 251
EntrySignal ==
    /\ RGt(short_ma(i), long_ma(i))
    /\ RGt(mid_ma(i), long_ma(i))
    /\ ~partial_plan.active
    /\ RGt(price_diff, cfg.PRICE_THRESHOLD)

\* lines 253-258
can_buy ==
    ~(/\ open_positions # << >>
      /\ last_buy_price # None
      /\ RGt(current_price,
             RMul(last_buy_price, RSub(ROne, Pct(cfg.REENTRY_GAP_PERCENT)))))

\* lines 262-269: next_trade_value as the entry leaves it
EntryTradeValue ==
    LET eq_now == compute_equity(balance, open_positions, current_price)
        base_trade_value == RMul(eq_now, Pct(cfg.POSITION_SIZE_PERCENT))
    IN  IF next_trade_value = None \/ open_positions = << >> THEN base_trade_value
        ELSE RMul(next_trade_value, MartingaleFactor)

\* a variant of lines 274-276 that opens the plan one step short
NewPlanOneStepShort(total_trade_value) ==
    [active |-> TRUE, steps_left |-> cfg.ACCUMULATION_STEPS - 1,
     remaining_value |-> total_trade_value]

\* lines 274-276: the plan an entry opens
NewPlan(total_trade_value) ==
    [active |-> TRUE, steps_left |-> cfg.ACCUMULATION_STEPS,
     remaining_value |-> total_trade_value]

\* lines 250-281: the entry decision, then the peak count of open positions
BT_Entry ==
    /\ pc = "bt_entry"
    /\ IF EntrySignal /\ Len(open_positions) < cfg.MAX_OPEN_TRADES /\ can_buy
       THEN LET total_trade_value == RMin(EntryTradeValue, balance)
            IN  /\ next_trade_value' = EntryTradeValue
                /\ IF RGt(total_trade_value, RZero)
                   THEN /\ partial_plan' = NewPlan(total_trade_value)
                        /\ cycle' = [state |-> "open", opened_at |-> i,
                                     opened_value |-> total_trade_value,
                                     buys |-> 0, spent |-> RZero]
                   ELSE UNCHANGED <<partial_plan, cycle>>
       ELSE UNCHANGED <<next_trade_value, partial_plan, cycle>>
    /\ max_open_positions' = IF Len(open_positions) > max_open_positions
                             THEN Len(open_positions) ELSE max_open_positions
    /\ pc' = "bt_bar"
    /\ UNCHANGED <<position_held, trade_log, sample, iteration, aggregated_results, grouped,
                   combinations, pool, data, earlier, cfg, last_call, closes, df_ma, i, balance, open_positions, closed_trades, equity_curve,
                   buy_and_hold_curve, last_buy_price, peak_equity, cross_down, trades,
                   results>>

\* a variant of line 286 that returns the curve of the loop as it is
FinalCurveWithoutLast(curve, final_equity) == curve

\* line 286: equity_curve.append(final_equity)
FinalCurve(curve, final_equity) == Append(curve, final_equity)

\* lines 283-310: after the last row
BT_Finish ==
    /\ pc = "bt_bar"
    /\ closes # << >>
    /\ LET final_price == R(closes[Len(closes)])
           final_equity == compute_equity(balance, open_positions, final_price)
           curve == FinalCurve(equity_curve, final_equity)
           buy_and_hold_final_equity == buy_and_hold_curve[Len(buy_and_hold_curve)]
       IN  /\ equity_curve' = curve
           /\ results' =
                [final_balance |-> balance,
                 final_equity |-> final_equity,
                 total_pnl |-> RSub(final_equity, R(cfg.INITIAL_BALANCE)),
                 max_drawdown |-> calculate_max_drawdown(curve),
                 open_positions |-> open_positions,
                 closed_trades |-> closed_trades,
                 equity_curve |-> curve,
                 max_open_positions |-> max_open_positions,
                 buy_and_hold_equity_curve |-> buy_and_hold_curve,
                 buy_and_hold_final_equity |-> buy_and_hold_final_equity,
                 buy_and_hold_total_pnl |->
                     RSub(buy_and_hold_final_equity, R(cfg.INITIAL_BALANCE)),
                 buy_and_hold_max_dd |-> calculate_max_drawdown(buy_and_hold_curve)]
    /\ pc' = "bt_done"
    /\ UNCHANGED <<position_held, trade_log, sample, iteration, aggregated_results, grouped,
                   combinations, pool, data, earlier, cfg, last_call, closes, df_ma, i, balance, open_positions, closed_trades,
                   buy_and_hold_curve, max_open_positions, partial_plan, last_buy_price,
                   peak_equity, next_trade_value, cross_down, trades, cycle>>

BT_Next ==
    \/ \E p \in Prices : BT_Snapshot(p)
    \/ BT_Accumulate
    \/ BT_TakeProfit
    \/ BT_SkipNotReady
    \/ BT_CrossdownAbort
    \/ BT_CrossdownLiquidate
    \/ BT_Entry
    \/ BT_Finish

Spec == BT_Init /\ [][BT_Next]_vars

\* The same function with the martingale switched on: INCREASE_X_PERCENT = 10 (the
\* value the comment of line 36 names), plans of one or two steps, lengths 1, 2, 3.
BT_MartingaleSettings ==
    {[BT_ScriptSettings EXCEPT !.SHORT_MA_LENGTH = 1,
                               !.MID_MA_LENGTH = 2,
                               !.LONG_MA_LENGTH = 3,
                               !.ACCUMULATION_STEPS = steps,
                               !.INCREASE_X_PERCENT = R(10)] : steps \in {1, 2}}

SpecMartingale == BT_InitWith(BT_MartingaleSettings) /\ [][BT_Next]_vars

-----------------------------------------------------------------------------
(* simulate_strategy of Crypto_Trade_Backtest.py *)

\* calculate_ma of Crypto_Trade_Backtest.py (lines 48-54)
sim_calculate_ma(series, window, ma_type) ==
    [t \in 1..Len(series) |->
        IF lower(ma_type) = "sma" THEN SmaAt(series, window, t)
        ELSE EmaAt(series, window, t)]

\* lines 53-54 of Crypto_Trade_Backtest.py: ValueError for any other kind
sim_calculate_ma_raises(ma_type) == lower(ma_type) \notin {"sma", "ema"}

\* params (line 62) and the fixed strategy parameters (lines 34-43), as the script
\* sets them, except: the lengths are 1, 2, 3 (the script draws short < mid < long
\* from MA_LENGTHS = 14..42), and SLIPPAGE and FEE_RATE (0.0005 and 0.001 in the
\* script) are 1/4 each to keep the exact fractions small.
SIM_Settings ==
    {[short_ma_length |-> 1, mid_ma_length |-> 2, long_ma_length |-> 3,
      reentry_gap |-> R(12),
      POSITION_SIZE_PERCENT |-> Frac(15, 2),
      SLIPPAGE |-> Frac(1, 4),
      FEE_RATE |-> Frac(1, 4),
      ACCUMULATION_STEPS |-> 2,
      PRICE_THRESHOLD |-> Frac(1, 100),
      MAX_OPEN_TRADES |-> 15,
      CLOSE_PROFIT_BUFFER_PERCENT |-> R(5),
      MA_TYPE |-> "ema",
      INITIAL_BALANCE |-> 1000]}

\* lines 64-76: the state the loop starts from
SIM_Init ==
    /\ cfg \in SIM_Settings
    /\ closes = << >>
    /\ df_ma = NoColumns
    /\ i = 0
    /\ pc = "sim_bar"
    /\ balance = R(cfg.INITIAL_BALANCE)
    /\ open_positions = << >>
    /\ partial_plan = IdlePlan
    /\ trades = << >>
    /\ cross_down = FALSE
    /\ results = << >>
    /\ cycle = NoCycle
    /\ last_call = NoCall
    /\ combinations = << >>
    /\ pool = NoPool
    /\ data = NoData
    /\ earlier = << >>
    /\ position_held = RZero
    /\ trade_log = << >>
    /\ sample = NoSample
    /\ iteration = 0
    /\ aggregated_results = << >>
    /\ grouped = << >>
    /\ closed_trades = << >>
    /\ equity_curve = << >>
    /\ buy_and_hold_curve = << >>
    /\ max_open_positions = 0
    /\ last_buy_price = None
    /\ peak_equity = R(cfg.INITIAL_BALANCE)
    /\ next_trade_value = None

\* line 76
start_index == Max3(cfg.short_ma_length, cfg.mid_ma_length, cfg.long_ma_length)

\* lines 66-68: the three columns over the rows revealed so far (as BT_Columns)
SIM_Columns(series) ==
    LET n == Len(series)
    IN  [short_ma |-> Append(df_ma.short_ma,
                             sim_calculate_ma(series, cfg.short_ma_length, cfg.MA_TYPE)[n]),
         mid_ma |-> Append(df_ma.mid_ma,
                           sim_calculate_ma(series, cfg.mid_ma_length, cfg.MA_TYPE)[n]),
         long_ma |-> Append(df_ma.long_ma,
                            sim_calculate_ma(series, cfg.long_ma_length, cfg.MA_TYPE)[n])]

\* lines 78-88: the next row of data.  Rows before start_index are outside the
\* loop's range; they only feed the averages, and the model lets them repeat the
\* first close.
SIM_Row(p) ==
    /\ pc = "sim_bar"
    /\ Len(closes) < MaxBarsSim
    /\ (closes # << >> /\ Len(closes) < start_index) => p = closes[1]
    /\ closes' = Append(closes, p)
    /\ df_ma' = SIM_Columns(Append(closes, p))
    /\ IF Len(closes) < start_index
       THEN UNCHANGED <<i, pc>>
       ELSE i' = Len(closes) /\ pc' = "sim_accumulate"
    /\ cross_down' = FALSE
    /\ UNCHANGED <<position_held, trade_log, sample, iteration, aggregated_results, grouped,
                   combinations, pool, data, earlier, cfg, last_call, balance, open_positions, closed_trades, equity_curve,
                   buy_and_hold_curve, max_open_positions, partial_plan, last_buy_price,
                   peak_equity, next_trade_value, trades, results, cycle>>

\* variant of lines 113-116 that never switches the plan off
SimPlanAfterStepStillActive(plan, step_value) ==
    [active |-> TRUE, steps_left |-> plan.steps_left - 1,
     remaining_value |-> RSub(plan.remaining_value, step_value)]

\* lines 113-116: the plan after a step of step_value was bought
SimPlanAfterStep(plan, step_value) ==
    [active |-> plan.steps_left - 1 # 0, steps_left |-> plan.steps_left - 1,
     remaining_value |-> RSub(plan.remaining_value, step_value)]

\* lines 90-116 on the ledger L = [balance, open_positions, trades, partial_plan]:
\* one step of the active plan, bought at price
SimAccumulate(L, price, ts) ==
    LET plan == L.partial_plan
        step0 == RDiv(plan.remaining_value, R(plan.steps_left))
        step1 == IF RGt(step0, L.balance) THEN L.balance ELSE step0
        actual_buy_price == RMul(price, RAdd(ROne, cfg.SLIPPAGE))
        over == RGt(RAdd(step1, RMul(step1, cfg.FEE_RATE)), L.balance)
        step_value == IF over THEN RDiv(L.balance, RAdd(ROne, cfg.FEE_RATE)) ELSE step1
        fee == RMul(step_value, cfg.FEE_RATE)
        size == RDiv(step_value, actual_buy_price)
    IN  IF plan.active /\ plan.steps_left > 0 /\ RGt(step1, RZero)
        THEN [balance |-> RSub(L.balance, RAdd(step_value, fee)),
              open_positions |-> Append(L.open_positions,
                  [timestamp_open |-> ts,
                   buy_price |-> price,
                   effective_buy_price |-> actual_buy_price,
                   size |-> size,
                   buy_fee |-> fee]),
              trades |-> Append(L.trades, [action |-> "buy", price |-> price,
                                           size |-> size, timestamp |-> ts]),
              partial_plan |-> SimPlanAfterStep(plan, step_value)]
        ELSE L

\* lines 90-116: one step of the active plan
SIM_Accumulate ==
    /\ pc = "sim_accumulate"
    /\ LET L == SimAccumulate([balance |-> balance, open_positions |-> open_positions,
                               trades |-> trades, partial_plan |-> partial_plan],
                              current_price, timestamp)
           bought == Len(L.open_positions) > Len(open_positions)
           new == L.open_positions[Len(L.open_positions)]
       IN  /\ balance' = L.balance
           /\ open_positions' = L.open_positions
           /\ trades' = L.trades
           /\ partial_plan' = L.partial_plan
           /\ cycle' = IF ~bought THEN cycle
                       ELSE [cycle EXCEPT
                               !.buys = @ + 1,
                               !.spent = RAdd(@, RMul(new.size, new.effective_buy_price)),
                               !.state = IF L.partial_plan.steps_left = 0 THEN "completed"
                                         ELSE @]
    /\ pc' = "sim_crossdown"
    /\ UNCHANGED <<position_held, trade_log, sample, iteration, aggregated_results, grouped,
                   combinations, pool, data, earlier, cfg, last_call, closes, df_ma, i, closed_trades, equity_curve,
                   buy_and_hold_curve, max_open_positions, last_buy_price, peak_equity,
                   next_trade_value, cross_down, results>>

\* lines 121-125
SimCrossDown ==
    /\ i > start_index
    /\ ~isna(short_ma(i)) /\ ~isna(mid_ma(i))
    /\ ~isna(short_ma(i - 1)) /\ ~isna(mid_ma(i - 1))
    /\ RLt(short_ma(i), mid_ma(i))
    /\ RGe(short_ma(i - 1), mid_ma(i - 1))

\* lines 120-128: a crossdown aborts the active plan
SIM_CrossdownAbort ==
    /\ pc = "sim_crossdown"
    /\ cross_down' = SimCrossDown
    /\ IF SimCrossDown /\ partial_plan.active
       THEN /\ partial_plan' = IdlePlan
            /\ cycle' = [cycle EXCEPT !.state = "aborted"]
       ELSE UNCHANGED <<partial_plan, cycle>>
    /\ pc' = "sim_sell"
    /\ UNCHANGED <<position_held, trade_log, sample, iteration, aggregated_results, grouped,
                   combinations, pool, data, earlier, cfg, last_call, closes, df_ma, i, balance, open_positions, closed_trades, equity_curve,
                   buy_and_hold_curve, max_open_positions, last_buy_price, peak_equity,
                   next_trade_value, trades, results>>

\* lines 129-137 over copy[k..], on the ledger L = [balance, open_positions, trades]
RECURSIVE SimSellLoop(_, _, _)
SimSellLoop(L, copy, k) ==
    IF k > Len(copy) THEN L
    ELSE IF ~ProfitAboveBuffer(copy[k]) THEN SimSellLoop(L, copy, k + 1)
    ELSE
      LET pos == copy[k]
          actual_sell_price == RMul(current_price, RSub(ROne, cfg.SLIPPAGE))
          proceeds == RMul(pos.size, actual_sell_price)
          fee_sell == RMul(proceeds, cfg.FEE_RATE)
      IN  SimSellLoop([balance |-> RAdd(L.balance, RSub(proceeds, fee_sell)),
                       open_positions |-> Remove(L.open_positions, pos),
                       trades |-> Append(L.trades,
                           [action |-> "sell_crossdown", price |-> current_price,
                            size |-> pos.size, timestamp |-> timestamp])],
                      copy, k + 1)

\* lines 129-137: a crossdown sells the positions in profit beyond the buffer
SIM_CrossdownSell ==
    /\ pc = "sim_sell"
    /\ LET L0 == [balance |-> balance, open_positions |-> open_positions,
                  trades |-> trades]
           L == IF cross_down THEN SimSellLoop(L0, open_positions, 1) ELSE L0
       IN  /\ balance' = L.balance
           /\ open_positions' = L.open_positions
           /\ trades' = L.trades
    /\ pc' = "sim_entry"
    /\ UNCHANGED <<position_held, trade_log, sample, iteration, aggregated_results, grouped,
                   combinations, pool, data, earlier, cfg, last_call, closes, df_ma, i, closed_trades, equity_curve, buy_and_hold_curve,
                   max_open_positions, partial_plan, last_buy_price, peak_equity,
                   next_trade_value, cross_down, results, cycle>>

\* lines 140-141
SimEntrySignal ==
    /\ ~isna(short_ma(i)) /\ ~isna(mid_ma(i)) /\ ~isna(long_ma(i))
    /\ RGt(short_ma(i), long_ma(i))
    /\ RGt(mid_ma(i), long_ma(i))
    /\ RGt(price_diff, cfg.PRICE_THRESHOLD)
    /\ Len(open_positions) < cfg.MAX_OPEN_TRADES

\* lines 142-147: the reference is the buy price of the last position still open
sim_can_buy ==
    ~(/\ open_positions # << >>
      /\ RGt(current_price,
             RMul(open_positions[Len(open_positions)].buy_price,
                  RSub(ROne, Pct(cfg.reentry_gap)))))

\* lines 139-150: the entry decision
SIM_Entry ==
    /\ pc = "sim_entry"
    /\ IF SimEntrySignal /\ sim_can_buy /\ ~partial_plan.active /\ RGt(balance, RZero)
       THEN LET trade_value == RMul(balance, Pct(cfg.POSITION_SIZE_PERCENT))
            IN  /\ partial_plan' = [active |-> TRUE,
                                    steps_left |-> cfg.ACCUMULATION_STEPS,
                                    remaining_value |-> trade_value]
                /\ cycle' = [state |-> "open", opened_at |-> i,
                             opened_value |-> trade_value,
                             buys |-> 0, spent |-> RZero]
       ELSE UNCHANGED <<partial_plan, cycle>>
    /\ pc' = "sim_bar"
    /\ UNCHANGED <<position_held, trade_log, sample, iteration, aggregated_results, grouped,
                   combinations, pool, data, earlier, cfg, last_call, closes, df_ma, i, balance, open_positions, closed_trades, equity_curve,
                   buy_and_hold_curve, max_open_positions, last_buy_price, peak_equity,
                   next_trade_value, cross_down, trades, results>>

\* lines 155-159 over open_positions[k..], on L = [balance, trades]; the list of
\* open positions itself is left as it is
RECURSIVE SimFinalLoop(_, _)
SimFinalLoop(L, k) ==
    IF k > Len(open_positions) THEN L
    ELSE
      LET pos == open_positions[k]
          final_close == R(closes[Len(closes)])
          final_price == RMul(final_close, RSub(ROne, cfg.SLIPPAGE))
          proceeds == RMul(pos.size, final_price)
          fee_sell == RMul(proceeds, cfg.FEE_RATE)
      IN  SimFinalLoop([balance |-> RAdd(L.balance, RSub(proceeds, fee_sell)),
                        trades |-> Append(L.trades,
                            [action |-> "sell_final", price |-> final_close,
                             size |-> pos.size, timestamp |-> Len(closes) - 1])],
                       k + 1)

\* lines 152-170: after the last row
SIM_Finish ==
    /\ pc = "sim_bar"
    /\ LET L == SimFinalLoop([balance |-> balance, trades |-> trades], 1)
       IN  /\ balance' = L.balance
           /\ trades' = L.trades
           /\ results' = [short_ma_length |-> cfg.short_ma_length,
                          mid_ma_length |-> cfg.mid_ma_length,
                          long_ma_length |-> cfg.long_ma_length,
                          reentry_gap |-> cfg.reentry_gap,
                          final_balance |-> L.balance,
                          total_pnl |-> RSub(L.balance, R(cfg.INITIAL_BALANCE)),
                          num_trades |-> Len(L.trades)]
    /\ pc' = "sim_done"
    /\ UNCHANGED <<position_held, trade_log, sample, iteration, aggregated_results, grouped,
                   combinations, pool, data, earlier, cfg, last_call, closes, df_ma, i, open_positions, closed_trades, equity_curve,
                   buy_and_hold_curve, max_open_positions, partial_plan, last_buy_price,
                   peak_equity, next_trade_value, cross_down, cycle>>

SIM_Next ==
    \/ \E p \in Prices : SIM_Row(p)
    \/ SIM_Accumulate
    \/ SIM_CrossdownAbort
    \/ SIM_CrossdownSell
    \/ SIM_Entry
    \/ SIM_Finish

SpecSim == SIM_Init /\ [][SIM_Next]_vars

-----------------------------------------------------------------------------
(* The ledger operations on their own: do_buy_trade, do_partial_sell and the  *)
(* buy of simulate_strategy, called with any arguments in any order           *)

\* the settings the ledger operations read: SLIPPAGE and FEE_RATE each zero
\* (as FEE_RATE is in the script) or above zero (as in Crypto_Trade_Backtest.py,
\* so that a buy can cost more than its notional)
Ledger_Settings ==
    {[BT_ScriptSettings EXCEPT !.SLIPPAGE = slippage, !.FEE_RATE = fee_rate] :
        slippage \in {RZero, Frac(1, 4)}, fee_rate \in {RZero, Frac(1, 4)}}

Ledger_Init ==
    /\ cfg \in Ledger_Settings
    /\ closes = << >>
    /\ df_ma = NoColumns
    /\ i = 0
    /\ pc = "ledger"
    /\ balance = R(cfg.INITIAL_BALANCE)
    /\ open_positions = << >>
    /\ closed_trades = << >>
    /\ equity_curve = << >>
    /\ buy_and_hold_curve = << >>
    /\ max_open_positions = 0
    /\ partial_plan = IdlePlan
    /\ last_buy_price = None
    /\ peak_equity = R(cfg.INITIAL_BALANCE)
    /\ next_trade_value = None
    /\ cross_down = FALSE
    /\ trades = << >>
    /\ results = << >>
    /\ cycle = NoCycle
    /\ last_call = NoCall
    /\ combinations = << >>
    /\ pool = NoPool
    /\ data = NoData
    /\ earlier = << >>
    /\ position_held = RZero
    /\ trade_log = << >>
    /\ sample = NoSample
    /\ iteration = 0
    /\ aggregated_results = << >>
    /\ grouped = << >>

\* do_buy_trade(trade_value, p, i)
Ledger_Buy(trade_value, p) ==
    /\ pc = "ledger"
    /\ i < MaxCalls
    /\ LET L == do_buy_trade([balance |-> balance, open_positions |-> open_positions,
                              last_buy_price |-> last_buy_price],
                             trade_value, R(p), i)
       IN  /\ balance' = L.balance
           /\ open_positions' = L.open_positions
           /\ last_buy_price' = L.last_buy_price
    /\ last_call' = [fn |-> "do_buy_trade", notional |-> trade_value]
    /\ i' = i + 1
    /\ UNCHANGED <<position_held, trade_log, sample, iteration, aggregated_results, grouped,
                   combinations, pool, data, earlier, cfg, closes, df_ma, pc, closed_trades, equity_curve,
                   buy_and_hold_curve, max_open_positions, partial_plan, peak_equity,
                   next_trade_value, cross_down, trades, results, cycle>>

\* the buy of simulate_strategy (lines 90-116) for a plan of `value` over `steps`
Ledger_SimBuy(value, steps, p) ==
    /\ pc = "ledger"
    /\ i < MaxCalls
    /\ LET plan == [active |-> TRUE, steps_left |-> steps, remaining_value |-> value]
           L == SimAccumulate([balance |-> balance, open_positions |-> open_positions,
                               trades |-> trades, partial_plan |-> plan], R(p), i)
       IN  /\ balance' = L.balance
           /\ open_positions' = L.open_positions
           /\ trades' = L.trades
           /\ last_call' = [fn |-> "simulate_strategy", notional |-> StepValue(plan)]
    /\ i' = i + 1
    /\ UNCHANGED <<position_held, trade_log, sample, iteration, aggregated_results, grouped,
                   combinations, pool, data, earlier, cfg, closes, df_ma, pc, closed_trades, equity_curve,
                   buy_and_hold_curve, max_open_positions, partial_plan, last_buy_price,
                   peak_equity, next_trade_value, cross_down, results, cycle>>

\* do_partial_sell(open_positions[k], 1.0, p, i), then the removal its callers make
Ledger_Sell(k, p) ==
    /\ pc = "ledger"
    /\ i < MaxCalls
    /\ LET L == SellLoop([balance |-> balance, open_positions |-> open_positions,
                          closed_trades |-> closed_trades],
                         <<open_positions[k]>>, 1, "all", R(p), i)
       IN  /\ balance' = L.balance
           /\ open_positions' = L.open_positions
           /\ closed_trades' = L.closed_trades
    /\ last_call' = [fn |-> "do_partial_sell", notional |-> RZero]
    /\ i' = i + 1
    /\ UNCHANGED <<position_held, trade_log, sample, iteration, aggregated_results, grouped,
                   combinations, pool, data, earlier, cfg, closes, df_ma, pc, equity_curve, buy_and_hold_curve,
                   max_open_positions, partial_plan, last_buy_price, peak_equity,
                   next_trade_value, cross_down, trades, results, cycle>>

Ledger_Next ==
    \/ \E v \in Notionals, p \in LedgerPrices : Ledger_Buy(v, p)
    \/ \E v \in Notionals, n \in {1, 2}, p \in LedgerPrices : Ledger_SimBuy(v, n, p)
    \/ \E k \in 1..Len(open_positions), p \in LedgerPrices : Ledger_Sell(k, p)

SpecLedger == Ledger_Init /\ [][Ledger_Next]_vars

\* a run of either simulation
SpecBoth == (BT_Init \/ SIM_Init) /\ [][BT_Next \/ SIM_Next]_vars

-----------------------------------------------------------------------------
(* run_optimization of Crypto_Trade_Backtest.py: the parameter grid and the   *)
(* pool of worker processes                                                   *)

\* the largest number of combinations whose simulation raises
MaxFaulty == 1

\* coin_name, the second argument of run_optimization
Coins == {"BTCUSDT", "ETHUSDT"}

\* MA_LENGTHS and REENTRY_GAP_VALUES as the script sets them (lines 30-31)
ScriptGrid == [MA_LENGTHS |-> <<14, 18, 22, 26, 30, 38, 40, 42>>,
               REENTRY_GAP_VALUES |-> <<10, 12, 15>>]

\* Other values a user may give the two lists, none with a value twice: three
\* and four candidate lengths, lengths out of order, too few lengths for a triple
OPT_Settings ==
    {[MA_LENGTHS |-> <<10, 20, 30>>, REENTRY_GAP_VALUES |-> <<10, 12, 15>>],
     [MA_LENGTHS |-> <<10, 20, 30, 40>>, REENTRY_GAP_VALUES |-> <<12>>],
     [MA_LENGTHS |-> <<30, 10, 20>>, REENTRY_GAP_VALUES |-> <<10, 12>>],
     [MA_LENGTHS |-> <<10, 20>>, REENTRY_GAP_VALUES |-> <<12>>]}

\* the variables of the simulation loops, which run_optimization does not hold
loop_vars == <<closes, df_ma, i, balance, open_positions, closed_trades, equity_curve,
               buy_and_hold_curve, max_open_positions, partial_plan, last_buy_price,
               peak_equity, next_trade_value, cross_down, trades, cycle, last_call,
               data, earlier, position_held, trade_log, sample, iteration, aggregated_results, grouped>>

\* a variant of line 183 that lets short equal mid
OrderedLoosely(short, mid, long) == short <= mid /\ mid < long

\* line 183: short < mid < long
Ordered(short, mid, long) == short < mid /\ mid < long

\* lines 182-186: what `for long in MA_LENGTHS` appends to combinations from its
\* l-th value on, for the short and mid in hand
RECURSIVE LongLoop(_, _, _, _, _)
LongLoop(lengths, gaps, short, mid, l) ==
    IF l > Len(lengths) THEN << >>
    ELSE LET long == lengths[l]
             appended == IF ~Ordered(short, mid, long) THEN << >>
                         ELSE [g \in 1..Len(gaps) |-> <<short, mid, long, gaps[g]>>]
         IN  appended \o LongLoop(lengths, gaps, short, mid, l + 1)

\* lines 181-186: what `for mid in MA_LENGTHS` appends from its m-th value on
RECURSIVE MidLoop(_, _, _, _)
MidLoop(lengths, gaps, short, m) ==
    IF m > Len(lengths) THEN << >>
    ELSE LongLoop(lengths, gaps, short, lengths[m], 1)
             \o MidLoop(lengths, gaps, short, m + 1)

\* lines 180-186: what `for short in MA_LENGTHS` appends from its s-th value on
RECURSIVE ShortLoop(_, _, _)
ShortLoop(lengths, gaps, s) ==
    IF s > Len(lengths) THEN << >>
    ELSE MidLoop(lengths, gaps, lengths[s], 1) \o ShortLoop(lengths, gaps, s + 1)

\* lines 179-186: the list `combinations`
Combinations(lengths, gaps) == ShortLoop(lengths, gaps, 1)

\* simulate_strategy_wrapper((data_sample, params)) when the simulation returns:
\* the dict of lines 162-170.  Its first four entries are the parameters; the
\* three figures of the run (final_balance, total_pnl, num_trades) are the ones
\* SIM_Finish computes and play no part in the collection.
simulate_strategy_wrapper(params) ==
    [short_ma_length |-> params[1], mid_ma_length |-> params[2],
     long_ma_length |-> params[3], reentry_gap |-> params[4]]

\* a variant of line 193 that leaves the result as the worker returned it
Untagged(result, coin_name) ==
    [short_ma_length |-> result.short_ma_length, mid_ma_length |-> result.mid_ma_length,
     long_ma_length |-> result.long_ma_length, reentry_gap |-> result.reentry_gap,
     coin |-> ""]

\* line 193: result["coin"] = coin_name
Tagged(result, coin_name) ==
    [short_ma_length |-> result.short_ma_length, mid_ma_length |-> result.mid_ma_length,
     long_ma_length |-> result.long_ma_length, reentry_gap |-> result.reentry_gap,
     coin |-> coin_name]

\* run_optimization(data_sample, coin_name) is called
OPT_Init ==
    /\ cfg \in OPT_Settings
    /\ pc = "opt_call"
    /\ combinations = << >>
    /\ pool \in {[NoPool EXCEPT !.coin_name = c] : c \in Coins}
    /\ results = << >>
    /\ closes = << >>
    /\ df_ma = NoColumns
    /\ i = 0
    /\ balance = RZero
    /\ open_positions = << >>
    /\ closed_trades = << >>
    /\ equity_curve = << >>
    /\ buy_and_hold_curve = << >>
    /\ max_open_positions = 0
    /\ partial_plan = IdlePlan
    /\ last_buy_price = None
    /\ peak_equity = RZero
    /\ next_trade_value = None
    /\ cross_down = FALSE
    /\ trades = << >>
    /\ cycle = NoCycle
    /\ last_call = NoCall
    /\ data = NoData
    /\ earlier = << >>
    /\ position_held = RZero
    /\ trade_log = << >>
    /\ sample = NoSample
    /\ iteration = 0
    /\ aggregated_results = << >>
    /\ grouped = << >>

\* lines 179-190: the grid, the empty result list, the tasks handed to the pool.
\* For which combinations simulate_strategy raises is a matter of the sample and
\* of the worker process; any set of at most MaxFaulty tasks may.
OPT_Generate ==
    /\ pc = "opt_call"
    /\ LET c == Combinations(cfg.MA_LENGTHS, cfg.REENTRY_GAP_VALUES)
       IN  /\ combinations' = c
           /\ \E f \in SUBSET (1..Len(c)) :
                  /\ Cardinality(f) <= MaxFaulty
                  /\ pool' = [pool EXCEPT !.pending = 1..Len(c), !.faulty = f]
    /\ results' = << >>
    /\ pc' = "opt_pool"
    /\ UNCHANGED <<cfg, loop_vars>>

\* a worker finishes task k: its result, or the exception it raised, joins the
\* results the iterator of imap_unordered will hand out, in order of completion
OPT_WorkerDone(k) ==
    /\ pc = "opt_pool"
    /\ k \in pool.pending
    /\ LET outcome == IF k \in pool.faulty
                      THEN [ok |-> FALSE, task |-> k, value |-> << >>]
                      ELSE [ok |-> TRUE, task |-> k,
                            value |-> simulate_strategy_wrapper(combinations[k])]
       IN  pool' = [pool EXCEPT !.pending = pool.pending \ {k},
                                !.finished = Append(pool.finished, outcome)]
    /\ UNCHANGED <<cfg, pc, combinations, results, loop_vars>>

\* lines 191-194: the loop takes the next finished result, tags and appends it
OPT_Collect ==
    /\ pc = "opt_pool"
    /\ pool.finished # << >>
    /\ Head(pool.finished).ok
    /\ results' = Append(results, Tagged(Head(pool.finished).value, pool.coin_name))
    /\ pool' = [pool EXCEPT !.finished = Tail(@)]
    /\ UNCHANGED <<cfg, pc, combinations, loop_vars>>

\* line 191: the next finished task raised; the iterator raises its exception in
\* the loop, which nothing in run_optimization catches.  Leaving the `with` block
\* terminates the pool, and the list `results` goes with the frame.
OPT_Raise ==
    /\ pc = "opt_pool"
    /\ pool.finished # << >>
    /\ ~Head(pool.finished).ok
    /\ pool' = [pool EXCEPT !.pending = {}, !.finished = << >>]
    /\ results' = << >>
    /\ pc' = "opt_raised"
    /\ UNCHANGED <<cfg, combinations, loop_vars>>

\* line 195: every task has been handed out; return pd.DataFrame(results)
OPT_Return ==
    /\ pc = "opt_pool"
    /\ pool.pending = {}
    /\ pool.finished = << >>
    /\ pool' = [pool EXCEPT !.returned = results]
    /\ pc' = "opt_returned"
    /\ UNCHANGED <<cfg, combinations, results, loop_vars>>

\* lines 296-297 of main: the exception passes through run_random_iterations and
\* is printed by the `except Exception` around the processing of the coin's file
OPT_MainCatches ==
    /\ pc = "opt_raised"
    /\ pc' = "main_except"
    /\ UNCHANGED <<cfg, combinations, pool, results, loop_vars>>

OPT_Next ==
    \/ OPT_Generate
    \/ \E k \in pool.pending : OPT_WorkerDone(k)
    \/ OPT_Collect
    \/ OPT_Raise
    \/ OPT_Return
    \/ OPT_MainCatches

SpecOpt == OPT_Init /\ [][OPT_Next]_vars

-----------------------------------------------------------------------------
(* simulate_strategy called again and again by one caller on one DataFrame    *)

\* the longest DataFrame a caller passes
MaxBarsCalls == 7

\* the largest number of calls a caller makes
MaxInvocations == 3

\* the parameter tuples (short, mid, long, reentry_gap) a caller passes
SimParams == {<<1, 2, 3, 12>>, <<2, 3, 4, 12>>}

\* the DataFrames a caller holds: columns timestamp and close, a close per row.
\* The rows before the largest start_index repeat the first close (see SIM_Row).
Frames ==
    LET warm_up == 4
        Series(n) == {s \in [1..n -> Prices] : \A k \in 1..n : k <= warm_up => s[k] = s[1]}
    IN  {[close |-> s, columns |-> {"timestamp", "close"}] :
            s \in UNION {Series(n) : n \in 0..MaxBarsCalls}}

\* a variant of lines 70-73 in which the four outlive the call, as module-level
\* state would
SimLocalsKept ==
    [balance |-> balance, open_positions |-> open_positions,
     partial_plan |-> partial_plan, trades |-> trades]

\* lines 70-73: the locals every call starts from
SimLocals ==
    [balance |-> R(cfg.INITIAL_BALANCE), open_positions |-> << >>,
     partial_plan |-> IdlePlan, trades |-> << >>]

\* a caller holding a DataFrame, before its first call
CALLS_Init ==
    /\ cfg \in SIM_Settings
    /\ data \in Frames
    /\ earlier = << >>
    /\ position_held = RZero
    /\ trade_log = << >>
    /\ sample = NoSample
    /\ iteration = 0
    /\ aggregated_results = << >>
    /\ grouped = << >>
    /\ pc = "caller"
    /\ closes = << >>
    /\ df_ma = NoColumns
    /\ i = 0
    /\ balance = R(cfg.INITIAL_BALANCE)
    /\ open_positions = << >>
    /\ partial_plan = IdlePlan
    /\ trades = << >>
    /\ cross_down = FALSE
    /\ results = << >>
    /\ cycle = NoCycle
    /\ last_call = NoCall
    /\ closed_trades = << >>
    /\ equity_curve = << >>
    /\ buy_and_hold_curve = << >>
    /\ max_open_positions = 0
    /\ last_buy_price = None
    /\ peak_equity = R(cfg.INITIAL_BALANCE)
    /\ next_trade_value = None
    /\ combinations = << >>
    /\ pool = NoPool

\* lines 57-76: simulate_strategy(data, params) is called, for the first time or
\* after an earlier call returned.  Line 64 rebinds the local name to a copy, to
\* which lines 66-68 add the three columns; the caller's DataFrame is not written.
\* The model keeps the copy's rows in closes and df_ma, as SIM_Init does.
CALL_Enter(params) ==
    /\ pc \in {"caller", "sim_done"}
    /\ Len(earlier) + (IF pc = "sim_done" THEN 1 ELSE 0) < MaxInvocations
    /\ earlier' = IF pc = "caller" THEN earlier
                  ELSE Append(earlier,
                              [params |-> <<cfg.short_ma_length, cfg.mid_ma_length,
                                            cfg.long_ma_length, cfg.reentry_gap>>,
                               result |-> results])
    /\ cfg' = [cfg EXCEPT !.short_ma_length = params[1],
                          !.mid_ma_length = params[2],
                          !.long_ma_length = params[3],
                          !.reentry_gap = R(params[4])]
    /\ closes' = << >>
    /\ df_ma' = NoColumns
    /\ i' = 0
    /\ balance' = SimLocals.balance
    /\ open_positions' = SimLocals.open_positions
    /\ partial_plan' = SimLocals.partial_plan
    /\ trades' = SimLocals.trades
    /\ cross_down' = FALSE
    /\ results' = << >>
    /\ cycle' = NoCycle
    /\ pc' = "sim_bar"
    /\ UNCHANGED <<position_held, trade_log, sample, iteration, aggregated_results, grouped,
                   data, combinations, pool, last_call, closed_trades, equity_curve,
                   buy_and_hold_curve, max_open_positions, last_buy_price, peak_equity,
                   next_trade_value>>

\* lines 78-88 on the next row of the DataFrame passed
CALL_Row ==
    /\ Len(closes) < Len(data.close)
    /\ SIM_Row(data.close[Len(closes) + 1])

\* lines 152-170 after the last row of the DataFrame passed
CALL_Return ==
    /\ Len(closes) = Len(data.close)
    /\ SIM_Finish

CALLS_Next ==
    \/ \E params \in SimParams : CALL_Enter(params)
    \/ CALL_Row
    \/ SIM_Accumulate
    \/ SIM_CrossdownAbort
    \/ SIM_CrossdownSell
    \/ SIM_Entry
    \/ CALL_Return

SpecCalls == CALLS_Init /\ [][CALLS_Next]_vars

\* The same function with a cap on open trades within reach of a short series:
\* MAX_OPEN_TRADES = 1 or 3 (odd, as the script's 15), plans of two steps as in
\* the script, lengths 1, 2, 3.
BT_CapSettings ==
    {[BT_ScriptSettings EXCEPT !.SHORT_MA_LENGTH = 1,
                               !.MID_MA_LENGTH = 2,
                               !.LONG_MA_LENGTH = 3,
                               !.MAX_OPEN_TRADES = cap] : cap \in {1, 3}}

SpecCap == BT_InitWith(BT_CapSettings) /\ [][BT_Next]_vars

-----------------------------------------------------------------------------
(* calculate_ma of the three scripts, called on its own with any series,    *)
(* window and kind                                                          *)

MaxLenMA == 5
MaxWindow == 4
MaPrices == 1..5
MaTypes == {"sma", "ema", "SMA", "wma"}

\* calculate_ma of Crypto_Trade_Backtest_Overfitted.py (lines 28-32) where it
\* returns a series; the kind is compared as given
overfitted_calculate_ma(close_column, ma_type, length) ==
    [t \in 1..Len(close_column) |->
        IF ma_type = "sma" THEN SmaAt(close_column, length, t)
        ELSE EmaAt(close_column, length, t)]

\* lines 29-32: neither branch taken, the function ends without a return
overfitted_calculate_ma_returns_none(ma_type) == ma_type \notin {"sma", "ema"}

MA_Init ==
    /\ cfg \in [ma_type : MaTypes, window : 1..MaxWindow]
    /\ closes \in UNION {[1..n -> MaPrices] : n \in 0..MaxLenMA}
    /\ df_ma = NoColumns
    /\ i = 0
    /\ pc = "ma_call"
    /\ balance = RZero
    /\ open_positions = << >>
    /\ closed_trades = << >>
    /\ equity_curve = << >>
    /\ buy_and_hold_curve = << >>
    /\ max_open_positions = 0
    /\ partial_plan = IdlePlan
    /\ last_buy_price = None
    /\ peak_equity = RZero
    /\ next_trade_value = None
    /\ cross_down = FALSE
    /\ trades = << >>
    /\ results = << >>
    /\ cycle = NoCycle
    /\ last_call = NoCall
    /\ combinations = << >>
    /\ pool = NoPool
    /\ data = NoData
    /\ earlier = << >>
    /\ position_held = RZero
    /\ trade_log = << >>
    /\ sample = NoSample
    /\ iteration = 0
    /\ aggregated_results = << >>
    /\ grouped = << >>

\* calculate_ma(prices, window, ma_type) of Backtest_MA_Crossover.py
MA_Call ==
    /\ pc = "ma_call"
    /\ last_call' = [fn |-> "Backtest_MA_Crossover.calculate_ma", notional |-> RZero]
    /\ IF calculate_ma_raises(cfg.ma_type)
       THEN pc' = "ma_raised" /\ UNCHANGED df_ma
       ELSE /\ pc' = "ma_returned"
            /\ df_ma' = [NoColumns EXCEPT
                           !.short_ma = calculate_ma(closes, cfg.window, cfg.ma_type)]
    /\ UNCHANGED <<position_held, trade_log, sample, iteration, aggregated_results, grouped,
                   combinations, pool, data, earlier, cfg, closes, i, balance, open_positions,
                   closed_trades, equity_curve, buy_and_hold_curve, max_open_positions,
                   partial_plan, last_buy_price, peak_equity, next_trade_value,
                   cross_down, trades, results, cycle>>

\* calculate_ma(series, window, ma_type) of Crypto_Trade_Backtest.py
MA_CallSim ==
    /\ pc = "ma_call"
    /\ last_call' = [fn |-> "Crypto_Trade_Backtest.calculate_ma", notional |-> RZero]
    /\ IF sim_calculate_ma_raises(cfg.ma_type)
       THEN pc' = "ma_raised" /\ UNCHANGED df_ma
       ELSE /\ pc' = "ma_returned"
            /\ df_ma' = [NoColumns EXCEPT
                           !.short_ma = sim_calculate_ma(closes, cfg.window, cfg.ma_type)]
    /\ UNCHANGED <<position_held, trade_log, sample, iteration, aggregated_results, grouped,
                   combinations, pool, data, earlier, cfg, closes, i, balance, open_positions,
                   closed_trades, equity_curve, buy_and_hold_curve, max_open_positions,
                   partial_plan, last_buy_price, peak_equity, next_trade_value,
                   cross_down, trades, results, cycle>>

\* calculate_ma(df, ma_type, length) of Crypto_Trade_Backtest_Overfitted.py
MA_CallOverfitted ==
    /\ pc = "ma_call"
    /\ last_call' = [fn |-> "Crypto_Trade_Backtest_Overfitted.calculate_ma",
                     notional |-> RZero]
    /\ IF overfitted_calculate_ma_returns_none(cfg.ma_type)
       THEN pc' = "ma_returned_none" /\ UNCHANGED df_ma
       ELSE /\ pc' = "ma_returned"
            /\ df_ma' = [NoColumns EXCEPT
                           !.short_ma = overfitted_calculate_ma(closes, cfg.ma_type,
                                                                cfg.window)]
    /\ UNCHANGED <<position_held, trade_log, sample, iteration, aggregated_results, grouped,
                   combinations, pool, data, earlier, cfg, closes, i, balance, open_positions,
                   closed_trades, equity_curve, buy_and_hold_curve, max_open_positions,
                   partial_plan, last_buy_price, peak_equity, next_trade_value,
                   cross_down, trades, results, cycle>>

MA_Next == MA_Call \/ MA_CallSim \/ MA_CallOverfitted

SpecMA == MA_Init /\ [][MA_Next]_vars

-----------------------------------------------------------------------------
(* backtest_strategy of Crypto_Trade_Backtest_Overfitted.py                 *)

MaxBarsOvf == 6
OvfPrices == {4, 5, 6}

\* the arguments run_optimization passes (lines 68-74: kinds sma and ema, short
\* length below long length), with lengths 1, 2, 3 for the script's 5..240, and
\* the kind wma as another caller may pass it
OVF_Settings ==
    [short_ma_type : {"sma", "ema", "wma"}, long_ma_type : {"sma", "ema"},
     lengths : {<<1, 2>>, <<2, 3>>}]

\* lines 36-37: the column assigned from calculate_ma; None fills every row
OvfColumn(close_column, ma_type, length) ==
    IF overfitted_calculate_ma_returns_none(ma_type)
    THEN [t \in 1..Len(close_column) |-> None]
    ELSE overfitted_calculate_ma(close_column, ma_type, length)

OVF_Init ==
    /\ cfg \in OVF_Settings
    /\ closes \in UNION {[1..n -> OvfPrices] : n \in 0..MaxBarsOvf}
    /\ df_ma = NoColumns
    /\ i = 0
    /\ pc = "ovf_call"
    /\ balance = RZero
    /\ open_positions = << >>
    /\ closed_trades = << >>
    /\ equity_curve = << >>
    /\ buy_and_hold_curve = << >>
    /\ max_open_positions = 0
    /\ partial_plan = IdlePlan
    /\ last_buy_price = None
    /\ peak_equity = RZero
    /\ next_trade_value = None
    /\ cross_down = FALSE
    /\ trades = << >>
    /\ results = << >>
    /\ cycle = NoCycle
    /\ last_call = NoCall
    /\ combinations = << >>
    /\ pool = NoPool
    /\ data = NoData
    /\ earlier = << >>
    /\ position_held = RZero
    /\ trade_log = << >>
    /\ sample = NoSample
    /\ iteration = 0
    /\ aggregated_results = << >>
    /\ grouped = << >>

\* lines 36-41: the two columns and the locals
OVF_Setup ==
    /\ pc = "ovf_call"
    /\ df_ma' = [short_ma |-> OvfColumn(closes, cfg.short_ma_type, cfg.lengths[1]),
                 mid_ma |-> << >>,
                 long_ma |-> OvfColumn(closes, cfg.long_ma_type, cfg.lengths[2])]
    /\ balance' = R(1000)
    /\ position_held' = RZero
    /\ trade_log' = << >>
    /\ i' = 1
    /\ pc' = "ovf_bar"
    /\ UNCHANGED <<sample, iteration, aggregated_results, grouped,
                   combinations, pool, data, earlier, cfg, closes, open_positions,
                   closed_trades, equity_curve, buy_and_hold_curve, max_open_positions,
                   partial_plan, last_buy_price, peak_equity, next_trade_value,
                   cross_down, trades, results, cycle, last_call>>

\* line 44
OvfReady == ~isna(short_ma(i)) /\ ~isna(long_ma(i))

\* a variant of line 45 without the test position == 0
OvfBuySignalAnyPosition ==
    /\ RGt(short_ma(i), long_ma(i))
    /\ ~isna(short_ma(i - 1)) /\ ~isna(long_ma(i - 1))
    /\ RLe(short_ma(i - 1), long_ma(i - 1))

\* line 45.  A comparison with NaN is False in Python.
OvfBuySignal ==
    /\ position_held = RZero
    /\ RGt(short_ma(i), long_ma(i))
    /\ ~isna(short_ma(i - 1)) /\ ~isna(long_ma(i - 1))
    /\ RLe(short_ma(i - 1), long_ma(i - 1))

\* line 51
OvfSellSignal ==
    /\ RGt(position_held, RZero)
    /\ RLt(short_ma(i), long_ma(i))
    /\ ~isna(short_ma(i - 1)) /\ ~isna(long_ma(i - 1))
    /\ RGe(short_ma(i - 1), long_ma(i - 1))

\* lines 43-55: one pass of the loop body, on the bar i
OVF_Bar ==
    /\ pc = "ovf_bar"
    /\ i < Len(closes)
    /\ IF OvfReady /\ OvfBuySignal
       THEN /\ position_held' = RDiv(balance, close(i))
            /\ trade_log' = Append(trade_log,
                  [timestamp |-> i, action |-> "BUY", price |-> close(i),
                   balance |-> balance])
            /\ balance' = RZero
       ELSE IF OvfReady /\ OvfSellSignal
       THEN /\ balance' = RMul(position_held, close(i))
            /\ trade_log' = Append(trade_log,
                  [timestamp |-> i, action |-> "SELL", price |-> close(i),
                   balance |-> RMul(position_held, close(i))])
            /\ position_held' = RZero
       ELSE UNCHANGED <<balance, position_held, trade_log>>
    /\ i' = i + 1
    /\ UNCHANGED <<sample, iteration, aggregated_results, grouped,
                   combinations, pool, data, earlier, cfg, closes, df_ma, pc,
                   open_positions, closed_trades, equity_curve, buy_and_hold_curve,
                   max_open_positions, partial_plan, last_buy_price, peak_equity,
                   next_trade_value, cross_down, trades, results, cycle, last_call>>

\* lines 57-62: the holding left is valued at the last close; position keeps
\* its value; balance and trade_log are returned
OVF_Finish ==
    /\ pc = "ovf_bar"
    /\ i >= Len(closes)
    /\ IF RGt(position_held, RZero)
       THEN /\ balance' = RMul(position_held, close(Len(closes) - 1))
            /\ trade_log' = Append(trade_log,
                  [timestamp |-> Len(closes) - 1, action |-> "SELL",
                   price |-> close(Len(closes) - 1),
                   balance |-> RMul(position_held, close(Len(closes) - 1))])
       ELSE UNCHANGED <<balance, trade_log>>
    /\ results' = <<[final_balance |-> balance', trade_log |-> trade_log']>>
    /\ pc' = "ovf_done"
    /\ UNCHANGED <<position_held, sample, iteration, aggregated_results, grouped,
                   combinations, pool, data, earlier, cfg, closes, df_ma, i,
                   open_positions, closed_trades, equity_curve, buy_and_hold_curve,
                   max_open_positions, partial_plan, last_buy_price, peak_equity,
                   next_trade_value, cross_down, trades, cycle, last_call>>

OVF_Next == OVF_Setup \/ OVF_Bar \/ OVF_Finish

SpecOverfitted == OVF_Init /\ [][OVF_Next]_vars

-----------------------------------------------------------------------------
(* get_random_sample and run_random_iterations of Crypto_Trade_Backtest.py  *)

MaxDay == 6

\* MIN_PERIOD_DAYS (365 in the script), ITERATIONS_PER_COIN (3) and the row
\* count of line 222 (100), with 3 days and 3 rows for 365 days and 100 rows so
\* that a week of daily bars has samples on both sides of each test
RRI_Settings ==
    {[MIN_PERIOD_DAYS |-> 3, ITERATIONS_PER_COIN |-> 3, MIN_ROWS |-> 3]}

\* the timestamps of a frame sorted by timestamp (line 288), in days: the
\* members of S in increasing order
RECURSIVE SortedTimestamps(_)
SortedTimestamps(S) ==
    IF S = {} THEN << >>
    ELSE LET first == CHOOSE d \in S : \A e \in S : d <= e
         IN  <<first>> \o SortedTimestamps(S \ {first})

\* a variant of line 204 without the minimum period
MinEndTimeAtStart(ts, start_idx) == ts[start_idx + 1]

\* lines 203-204: min_end_time for the start chosen (indices 0-based)
MinEndTime(ts, start_idx) == ts[start_idx + 1] + cfg.MIN_PERIOD_DAYS

\* lines 205-209: the rows j after the start with timestamp >= min_end_time
RowsFarEnough(ts, start_idx) ==
    {j \in (start_idx + 1)..(Len(ts) - 1) : ts[j + 1] >= MinEndTime(ts, start_idx)}

\* lines 198-214: what get_random_sample can return for the frame, over the
\* two draws of random.randint
GetRandomSample(ts) ==
    LET n == Len(ts)
    IN  IF n < 2 THEN {NoSample}
        ELSE UNION {
               LET far == RowsFarEnough(ts, start_idx)
                   end_idx == CHOOSE j \in far : \A k \in far : j <= k
               IN  IF far = {} THEN {[NoSample EXCEPT !.start_idx = start_idx]}
                   ELSE {[returned |-> "sample", start_idx |-> start_idx,
                          end_idx |-> e,
                          timestamp |-> SubSeq(ts, start_idx + 1, e + 1)] :
                             e \in end_idx..(n - 1)}
               : start_idx \in 0..(n - 2)}

\* a variant of line 222 that tests for None only
RejectedOnlyIfNone(s) == s.returned = "None"

\* line 222: sample is None or len(sample) < 100
Rejected(s) == s.returned = "None" \/ Len(s.timestamp) < cfg.MIN_ROWS

RRI_Init ==
    /\ cfg \in RRI_Settings
    /\ data \in {[timestamp |-> SortedTimestamps(S)] : S \in SUBSET (0..MaxDay)}
    /\ closes = << >>
    /\ df_ma = NoColumns
    /\ i = 0
    /\ pc = "rri_sample"
    /\ balance = RZero
    /\ open_positions = << >>
    /\ closed_trades = << >>
    /\ equity_curve = << >>
    /\ buy_and_hold_curve = << >>
    /\ max_open_positions = 0
    /\ partial_plan = IdlePlan
    /\ last_buy_price = None
    /\ peak_equity = RZero
    /\ next_trade_value = None
    /\ cross_down = FALSE
    /\ trades = << >>
    /\ results = << >>
    /\ cycle = NoCycle
    /\ last_call = NoCall
    /\ combinations = << >>
    /\ pool = NoPool
    /\ earlier = << >>
    /\ position_held = RZero
    /\ trade_log = << >>
    /\ sample = NoSample
    /\ iteration = 0
    /\ aggregated_results = << >>
    /\ grouped = << >>

rri_frame == <<cfg, data, closes, df_ma, i, balance, open_positions, closed_trades,
               equity_curve, buy_and_hold_curve, max_open_positions, partial_plan,
               last_buy_price, peak_equity, next_trade_value, cross_down, trades,
               cycle, combinations, pool, earlier, position_held, trade_log, grouped>>

\* lines 219-221: the next iteration draws its sample
RRI_Sample ==
    /\ pc = "rri_sample"
    /\ iteration < cfg.ITERATIONS_PER_COIN
    /\ sample' \in GetRandomSample(data.timestamp)
    /\ last_call' = [fn |-> "get_random_sample", notional |-> RZero]
    /\ pc' = "rri_check"
    /\ UNCHANGED <<rri_frame, iteration, aggregated_results, results>>

\* lines 222-224: the sample is rejected, the iteration skipped
RRI_Skip ==
    /\ pc = "rri_check"
    /\ Rejected(sample)
    /\ last_call' = [fn |-> "print", notional |-> RZero]
    /\ iteration' = iteration + 1
    /\ pc' = "rri_sample"
    /\ UNCHANGED <<rri_frame, sample, aggregated_results, results>>

\* lines 225-227: run_optimization on the sample; its rows join the results
RRI_Run ==
    /\ pc = "rri_check"
    /\ ~Rejected(sample)
    /\ last_call' = [fn |-> "run_optimization", notional |-> RZero]
    /\ aggregated_results' = Append(aggregated_results,
                                    [iteration |-> iteration,
                                     rows |-> Len(sample.timestamp)])
    /\ iteration' = iteration + 1
    /\ pc' = "rri_sample"
    /\ UNCHANGED <<rri_frame, sample, results>>

\* lines 228-237: the rows are saved and returned, or an empty frame is
RRI_Finish ==
    /\ pc = "rri_sample"
    /\ iteration = cfg.ITERATIONS_PER_COIN
    /\ results' = aggregated_results
    /\ last_call' = [fn |-> IF aggregated_results # << >> THEN "to_csv" ELSE "print",
                     notional |-> RZero]
    /\ pc' = "rri_done"
    /\ UNCHANGED <<rri_frame, sample, iteration, aggregated_results>>

RRI_Next == RRI_Sample \/ RRI_Skip \/ RRI_Run \/ RRI_Finish

SpecSample == RRI_Init /\ [][RRI_Next]_vars

-----------------------------------------------------------------------------
(* aggregate_overall_results of Crypto_Trade_Backtest.py                    *)

MaxRows == 4

\* the rows of the aggregated_*_performance.csv files: results of
\* simulate_strategy (lines 162-170) tagged with their coin (line 193), for two
\* combinations of the grid, two coins and three final balances
AggRows ==
    {[short_ma_length |-> 14, mid_ma_length |-> 18, long_ma_length |-> 22,
      reentry_gap |-> gap, coin |-> coin,
      final_balance |-> R(final),
      total_pnl |-> RSub(R(final), R(1000))] :
        gap \in {10, 12}, coin \in Coins, final \in {995, 1010, 1020}}

\* lines 254-256: the columns of the groupby
AggKey(row) ==
    <<row.short_ma_length, row.mid_ma_length, row.long_ma_length, row.reentry_gap,
      row.coin>>

\* the rows of a group, in the order of the combined frame
AggMembers(rows, key) == SelectSeq(rows, LAMBDA r : AggKey(r) = key)

\* lines 254-262: the row of the group of key, with the five aggregates
AggGroupRow(rows, key) ==
    LET members == AggMembers(rows, key)
        n == Len(members)
        final_balances == [k \in 1..n |-> members[k].final_balance]
        pnls == [k \in 1..n |-> members[k].total_pnl]
    IN  [short_ma_length |-> key[1], mid_ma_length |-> key[2],
         long_ma_length |-> key[3], reentry_gap |-> key[4], coin |-> key[5],
         total_final_balance |-> RSum(final_balances),
         average_final_balance |-> RDiv(RSum(final_balances), R(n)),
         total_pnl |-> RSum(pnls),
         average_pnl |-> RDiv(RSum(pnls), R(n)),
         num_trials |-> n]

\* a variant of line 263 that sorts by total_final_balance
RankedByTotal(table) ==
    \A g, h \in 1..Len(table) :
        g < h => RGe(table[g].total_final_balance, table[h].total_final_balance)

\* line 263: sorted by average_final_balance, descending
Ranked(table) ==
    \A g, h \in 1..Len(table) :
        g < h => RGe(table[g].average_final_balance, table[h].average_final_balance)

\* lines 254-263: the tables sort_values can leave, one row per group; rows
\* of equal average come in any order
AggTables(rows) ==
    LET keys == {AggKey(rows[k]) : k \in 1..Len(rows)}
        group_rows == {AggGroupRow(rows, key) : key \in keys}
        n == Cardinality(keys)
    IN  {table \in [1..n -> group_rows] :
            /\ \A g, h \in 1..n : g # h => table[g] # table[h]
            /\ Ranked(table)}

AGG_Init ==
    /\ cfg \in {[OUTPUT_DIR |-> "OUTPUT_DIR"]}
    /\ aggregated_results \in UNION {[1..n -> AggRows] : n \in 0..MaxRows}
    /\ closes = << >>
    /\ df_ma = NoColumns
    /\ i = 0
    /\ pc = "agg_call"
    /\ balance = RZero
    /\ open_positions = << >>
    /\ closed_trades = << >>
    /\ equity_curve = << >>
    /\ buy_and_hold_curve = << >>
    /\ max_open_positions = 0
    /\ partial_plan = IdlePlan
    /\ last_buy_price = None
    /\ peak_equity = RZero
    /\ next_trade_value = None
    /\ cross_down = FALSE
    /\ trades = << >>
    /\ results = << >>
    /\ cycle = NoCycle
    /\ last_call = NoCall
    /\ combinations = << >>
    /\ pool = NoPool
    /\ data = NoData
    /\ earlier = << >>
    /\ position_held = RZero
    /\ trade_log = << >>
    /\ sample = NoSample
    /\ iteration = 0
    /\ grouped = << >>

agg_frame == <<cfg, aggregated_results, closes, df_ma, i, balance, open_positions,
               closed_trades, equity_curve, buy_and_hold_curve, max_open_positions,
               partial_plan, last_buy_price, peak_equity, next_trade_value,
               cross_down, trades, results, cycle, combinations, pool, data, earlier,
               position_held, trade_log, sample, iteration>>

\* lines 241-252: no file gave a row; a warning and nothing else
AGG_NoResults ==
    /\ pc = "agg_call"
    /\ aggregated_results = << >>
    /\ last_call' = [fn |-> "print", notional |-> RZero]
    /\ pc' = "agg_done"
    /\ UNCHANGED <<agg_frame, grouped>>

\* lines 253-268: the rows are grouped, ranked and saved
AGG_Rank ==
    /\ pc = "agg_call"
    /\ aggregated_results # << >>
    /\ grouped' \in AggTables(aggregated_results)
    /\ last_call' = [fn |-> "to_csv", notional |-> RZero]
    /\ pc' = "agg_done"
    /\ UNCHANGED agg_frame

AGG_Next == AGG_NoResults \/ AGG_Rank

SpecAggregate == AGG_Init /\ [][AGG_Next]_vars

-----------------------------------------------------------------------------
(* Properties *)

C2_AbortDiscardsRemainder ==
    [][/\ (pc \in {"bt_signals", "sim_crossdown"} /\ partial_plan.active /\ cross_down') =>
            /\ partial_plan' = IdlePlan
            /\ balance' = balance
            /\ open_positions' = open_positions
            /\ cycle'.state = "aborted"
       /\ (cycle.state = "aborted" /\ cycle'.state = "aborted") =>
            /\ partial_plan' = IdlePlan
            /\ Len(open_positions') <= Len(open_positions)
            /\ RGe(balance', balance)
            /\ cycle'.buys = cycle.buys
       /\ (cycle.state = "aborted" /\ cycle'.state # "aborted") =>
            /\ pc \in {"bt_entry", "sim_entry"}
            /\ cycle'.buys = 0
            /\ open_positions' = open_positions
      ]_vars

\* simulate_strategy has passed the buy step of a bar after the one whose
\* crossdown aborted a plan that had bought less than it was opened for
C2_Witness ==
    /\ pc = "sim_crossdown"
    /\ cycle.state = "aborted"
    /\ cycle.buys < cfg.ACCUMULATION_STEPS
    /\ RLt(cycle.spent, cycle.opened_value)
    /\ ~cross_down

\* C3, as stated: once a bar on which a crossdown triggered has been fully
\* processed the plan is idle, no plan being opened on the crossdown bar itself.
C3_IdleAfterCrossdownBar ==
    (pc = "bt_bar" /\ cross_down) => partial_plan = IdlePlan

\* C3, amended: once the crossdown step of a bar on which a crossdown triggered
\* has run (lines 226-248) the plan is idle; the entry step of the same bar may
\* then open a new plan, so that when the bar has been fully processed the plan
\* is either idle or a plan opened on that very bar, with all of its
\* ACCUMULATION_STEPS steps and its whole value still to be bought.
C3_IdleAfterCrossdownStep ==
    /\ (pc \in {"bt_liquidate", "bt_entry"} /\ cross_down) => partial_plan = IdlePlan
    /\ (pc = "bt_bar" /\ cross_down /\ partial_plan # IdlePlan) =>
            /\ partial_plan.active
            /\ partial_plan.steps_left = cfg.ACCUMULATION_STEPS
            /\ partial_plan.remaining_value = cycle.opened_value
            /\ cycle.state = "open"
            /\ cycle.opened_at = i
            /\ cycle.buys = 0

\* a crossdown bar has ended with a new plan opened on it, after its crossdown
\* step sold what an earlier plan had bought
C3_Witness ==
    /\ pc = "bt_bar"
    /\ cross_down
    /\ partial_plan.active
    /\ cycle.opened_at = i
    /\ closed_trades # << >>

\* C4, as stated: the result of backtest_partial_accumulation_with_dd_and_
\* partial_sells has no open positions, and its final balance equals its final
\* equity (every position left after the last bar having been sold).
C4_ResultHasNoOpenPositions ==
    pc = "bt_done" =>
        /\ results.open_positions = << >>
        /\ results.final_balance = results.final_equity

\* C5: the cash balance is never negative.  A buy with a notional <= 0 or with a
\* balance <= 0 changes nothing (balance, open positions, last_buy_price); any
\* other buy adds one position and deducts its cost before fee plus its fee, an
\* amount above 0 and at most the balance held before the buy, the cost before
\* fee being at most the notional asked for.
C5_BuyNeverOverdraws ==
    [][LET buy == \/ pc = "ledger" /\ last_call'.fn \in {"do_buy_trade", "simulate_strategy"}
                  \/ /\ pc \in {"bt_accumulate", "sim_accumulate"}
                     /\ partial_plan.active
                     /\ partial_plan.steps_left > 0
           notional == IF pc = "ledger" THEN last_call'.notional
                       ELSE RDiv(partial_plan.remaining_value, R(partial_plan.steps_left))
           new == open_positions'[Len(open_positions')]
           cost == RMul(new.size, new.effective_buy_price)
           deducted == RSub(balance, balance')
       IN  /\ RGe(balance', RZero)
           /\ buy =>
                IF RLe(notional, RZero) \/ RLe(balance, RZero)
                THEN /\ balance' = balance
                     /\ open_positions' = open_positions
                     /\ last_buy_price' = last_buy_price
                ELSE /\ Len(open_positions') = Len(open_positions) + 1
                     /\ deducted = RAdd(cost, new.buy_fee)
                     /\ new.buy_fee = RMul(cost, cfg.FEE_RATE)
                     /\ RGt(deducted, RZero)
                     /\ RLe(deducted, balance)
                     /\ RLe(cost, notional)
      ]_vars

\* do_buy_trade has spent the whole balance on a buy whose notional plus fee
\* exceeded it
C5_Witness ==
    /\ pc = "ledger"
    /\ last_call.fn = "do_buy_trade"
    /\ RGt(last_call.notional, RZero)
    /\ balance = RZero
    /\ Len(open_positions) >= 2
    /\ RGt(open_positions[Len(open_positions)].buy_fee, RZero)

\* C6: the equity snapshot recorded for a bar is balance + the sum over the open
\* positions of size * current price, and taking it leaves the balance and the
\* open positions as they were.
C6_SnapshotIsBalancePlusPositions ==
    [][(pc = "bt_bar" /\ pc' = "bt_accumulate") =>
          LET price == R(closes'[Len(closes')])
              RECURSIVE Value(_)
              Value(n) == IF n = 0 THEN RZero
                          ELSE RAdd(Value(n - 1), RMul(open_positions[n].size, price))
          IN  /\ Len(equity_curve') = Len(equity_curve) + 1
              /\ SubSeq(equity_curve', 1, Len(equity_curve)) = equity_curve
              /\ equity_curve'[Len(equity_curve')] = RAdd(balance, Value(Len(open_positions)))
              /\ balance' = balance
              /\ open_positions' = open_positions
      ]_vars

\* a snapshot taken with a position open at a price other than its buy price
C6_Witness ==
    /\ pc = "bt_accumulate"
    /\ \E k \in 1..Len(open_positions) : open_positions[k].buy_price # current_price
    /\ Len(equity_curve) = i + 1
    /\ equity_curve[i + 1] # balance

\* C7: for the equity curve and the buy & hold curve of a run, calculate_max_drawdown
\* returns 100 * the largest (running peak - value) / running peak, a value in
\* [0, 100], and 0 if the curve never decreases.
C7_MaxDrawdown ==
    pc = "bt_done" =>
        LET Peak(curve, t) ==
                CHOOSE x \in {curve[k] : k \in 1..t} :
                    \A y \in {curve[k] : k \in 1..t} : RGe(x, y)
            Drawdowns(curve) ==
                {RDiv(RSub(Peak(curve, t), curve[t]), Peak(curve, t)) : t \in 1..Len(curve)}
            Largest(curve) ==
                CHOOSE x \in Drawdowns(curve) : \A y \in Drawdowns(curve) : RGe(x, y)
            NeverDecreases(curve) ==
                \A t \in 1..(Len(curve) - 1) : RGe(curve[t + 1], curve[t])
            Right(dd, curve) ==
                /\ \A t \in 1..Len(curve) : RGt(curve[t], RZero)
                /\ dd = RMul(Largest(curve), R(100))
                /\ RGe(dd, RZero) /\ RLe(dd, R(100))
                /\ NeverDecreases(curve) <=> dd = RZero
        IN  /\ Right(results.max_drawdown, results.equity_curve)
            /\ Right(results.buy_and_hold_max_dd, results.buy_and_hold_equity_curve)

\* a run whose equity curve fell after a new peak, and by less than buy & hold did
C7_Witness ==
    /\ pc = "bt_done"
    /\ RGt(results.max_drawdown, RZero)
    /\ RLt(results.max_drawdown, results.buy_and_hold_max_dd)
    /\ \E t \in 2..Len(results.equity_curve) :
           RGt(results.equity_curve[t], results.equity_curve[1])

\* C8, as stated: in simulate_strategy, with a position open, a plan is opened
\* only at a price at or below (price of the most recently executed buy) *
\* (1 - reentry_gap / 100), whether or not that buy's position is still open.
C8_GapFromLastExecutedBuy ==
    [][(/\ pc = "sim_entry"
        /\ ~partial_plan.active
        /\ partial_plan'.active
        /\ open_positions # << >>) =>
          LET buys == {k \in 1..Len(trades) : trades[k].action = "buy"}
              last == CHOOSE k \in buys : \A j \in buys : j <= k
          IN  RLe(current_price,
                  RMul(trades[last].price, RSub(ROne, Pct(cfg.reentry_gap))))
      ]_vars

\* C9: the plan goes from not active to active only on the entry step of a bar
\* whose index is at least the largest of the three lengths, with short MA >
\* long MA, mid MA > long MA, a price change from the previous bar above the
\* threshold, and fewer open positions than the cap.
C9_EntryConditions ==
    [][(~partial_plan.active /\ partial_plan'.active) =>
          LET bt == pc = "bt_entry"
              longest == IF bt THEN Max3(cfg.SHORT_MA_LENGTH, cfg.MID_MA_LENGTH,
                                         cfg.LONG_MA_LENGTH)
                         ELSE Max3(cfg.short_ma_length, cfg.mid_ma_length,
                                   cfg.long_ma_length)
              now == R(closes[i + 1])
              before == R(closes[i])
          IN  /\ pc \in {"bt_entry", "sim_entry"}
              /\ i >= longest
              /\ i = Len(closes) - 1
              /\ ~isna(df_ma.short_ma[i + 1])
              /\ ~isna(df_ma.mid_ma[i + 1])
              /\ ~isna(df_ma.long_ma[i + 1])
              /\ RGt(df_ma.short_ma[i + 1], df_ma.long_ma[i + 1])
              /\ RGt(df_ma.mid_ma[i + 1], df_ma.long_ma[i + 1])
              /\ RGt(RMul(RSub(now, before), R(100)), RMul(cfg.PRICE_THRESHOLD, before))
              /\ Len(open_positions) < cfg.MAX_OPEN_TRADES
              /\ partial_plan'.steps_left = cfg.ACCUMULATION_STEPS
      ]_vars

\* simulate_strategy has opened a plan on a bar that ends with a position still
\* open from an earlier plan
C9_Witness ==
    /\ pc = "sim_bar"
    /\ partial_plan.active
    /\ partial_plan.steps_left = cfg.ACCUMULATION_STEPS
    /\ cycle.opened_at = i
    /\ open_positions # << >>

\* C10: the liquidation step of a bar sells by exactly one policy.  Without a
\* crossdown (short[t] < mid[t] and short[t-1] >= mid[t-1]) nothing is sold; on
\* a crossdown, CLOSE_ALL_ON_CROSSDOWN sells every open position, otherwise
\* CLOSE_PROFIT_ON_CROSSDOWN sells exactly the positions whose profit% over the
\* nominal buy price is above the buffer, otherwise nothing is sold.  A position
\* sold is sold whole and removed; the others stay as they were, in their order.
C10_OneLiquidationPolicy ==
    [][pc = "bt_liquidate" =>
          LET crossdown == /\ RLt(df_ma.short_ma[i + 1], df_ma.mid_ma[i + 1])
                           /\ RGe(df_ma.short_ma[i], df_ma.mid_ma[i])
              price == R(closes[i + 1])
              InProfit(pos) == RGt(RMul(RSub(price, pos.buy_price), R(100)),
                                   RMul(cfg.CLOSE_PROFIT_BUFFER_PERCENT, pos.buy_price))
              Sold(pos) == /\ crossdown
                           /\ \/ cfg.CLOSE_ALL_ON_CROSSDOWN
                              \/ cfg.CLOSE_PROFIT_ON_CROSSDOWN /\ InProfit(pos)
              Kept(pos) == ~Sold(pos)
              sold == SelectSeq(open_positions, Sold)
              n == Len(closed_trades)
          IN  /\ cross_down <=> crossdown
              /\ open_positions' = SelectSeq(open_positions, Kept)
              /\ Len(closed_trades') = n + Len(sold)
              /\ SubSeq(closed_trades', 1, n) = closed_trades
              /\ \A k \in 1..Len(sold) :
                     /\ closed_trades'[n + k].size = sold[k].size
                     /\ closed_trades'[n + k].timestamp_open = sold[k].timestamp_open
                     /\ closed_trades'[n + k].buy_price = sold[k].buy_price
                     /\ closed_trades'[n + k].sell_price = price
                     /\ closed_trades'[n + k].timestamp_close = i
      ]_vars

\* a crossdown under CLOSE_PROFIT_ON_CROSSDOWN has sold one position, short of
\* its take-profit price, and kept another
C10_Witness ==
    /\ pc = "bt_entry"
    /\ cross_down
    /\ ~cfg.CLOSE_ALL_ON_CROSSDOWN
    /\ cfg.CLOSE_PROFIT_ON_CROSSDOWN
    /\ open_positions # << >>
    /\ \E k \in 1..Len(closed_trades) :
           /\ closed_trades[k].timestamp_close = i
           /\ RLt(closed_trades[k].sell_price,
                  RMul(closed_trades[k].buy_price, target_mult))

\* C11: in backtest_partial_accumulation_with_dd_and_partial_sells every bar runs
\* the take-profit step, bars before the indicators are ready included and
\* whether or not the bar has a crossdown.  The step sells in full exactly the
\* open positions whose buy price times (1 + TAKE_PROFIT_PERCENT / 100) is at or
\* below the bar's price, and from that step to the end of the bar no open
\* position satisfies the take-profit condition.
C11_TakeProfitSweepsEveryBar ==
    [][LET price == R(closes'[i' + 1])
           AtTarget(pos) ==
               RLe(RMul(pos.buy_price,
                        RAdd(ROne, RDiv(cfg.TAKE_PROFIT_PERCENT, R(100)))),
                   price)
           Below(pos) == ~AtTarget(pos)
           due == SelectSeq(open_positions, AtTarget)
           n == Len(closed_trades)
       IN  /\ pc = "bt_accumulate" => pc' = "bt_take_profit"
           /\ pc = "bt_take_profit" =>
                /\ pc' = "bt_signals"
                /\ open_positions' = SelectSeq(open_positions, Below)
                /\ Len(closed_trades') = n + Len(due)
                /\ \A k \in 1..Len(due) :
                       /\ closed_trades'[n + k].timestamp_open = due[k].timestamp_open
                       /\ closed_trades'[n + k].timestamp_close = i
                       /\ closed_trades'[n + k].size = due[k].size
                       /\ closed_trades'[n + k].sell_price = price
           /\ pc \in {"bt_take_profit", "bt_signals", "bt_liquidate", "bt_entry"} =>
                \A k \in 1..Len(open_positions') : Below(open_positions'[k])
      ]_vars

\* a take-profit sale on a bar without a crossdown, another position staying open
C11_Witness ==
    /\ pc = "bt_entry"
    /\ ~cross_down
    /\ open_positions # << >>
    /\ \E k \in 1..Len(closed_trades) :
           /\ closed_trades[k].timestamp_close = i
           /\ RGe(closed_trades[k].sell_price,
                  RMul(closed_trades[k].buy_price, target_mult))

\* C12: the martingale multiplier 1 + INCREASE_X_PERCENT / 100 is applied once per
\* accumulation cycle: a plan opened after the previous plan ran to completion,
\* with positions still open, is worth the previous plan's value times the
\* multiplier, capped at the balance.
C12_MultiplierOncePerCycle ==
    [][(/\ pc = "bt_entry"
        /\ ~partial_plan.active
        /\ partial_plan'.active
        /\ cycle.state = "completed"
        /\ open_positions # << >>)
       => partial_plan'.remaining_value =
              RMin(RMul(cycle.opened_value,
                        RAdd(ROne, RDiv(cfg.INCREASE_X_PERCENT, R(100)))),
                   balance)
      ]_vars

\* C13: in backtest_partial_accumulation_with_dd_and_partial_sells every sale is a
\* sale of a whole position: it appends one ClosedTrade whose size is the size the
\* position had just before the sale, it leaves the position a size of 0, and the
\* position is taken off the open list.  No open position ever has a size below
\* 1e-8, at the end of a bar in particular.
C13_FullSellClosesThePosition ==
    [][LET n == Len(closed_trades)
           m == Len(closed_trades') - n
           Gone(pos) == \A j \in 1..Len(open_positions') : open_positions'[j] # pos
           Stays(pos) == ~Gone(pos)
           gone == SelectSeq(open_positions, Gone)
           tiny == <<1, 100000000>>
       IN  /\ closed_trades' # closed_trades =>
                /\ pc \in {"bt_take_profit", "bt_liquidate"}
                /\ m > 0
                /\ SubSeq(closed_trades', 1, n) = closed_trades
                /\ Len(gone) = m
                /\ open_positions' = SelectSeq(open_positions, Stays)
                /\ \A k \in 1..m :
                       /\ closed_trades'[n + k].timestamp_open = gone[k].timestamp_open
                       /\ closed_trades'[n + k].size = gone[k].size
           /\ pc \in {"bt_take_profit", "bt_liquidate"} =>
                \A k \in 1..Len(open_positions) :
                    LET s == do_partial_sell(open_positions[k], ROne, R(closes[i + 1]), i)
                    IN  /\ s.closed_trade.size = open_positions[k].size
                        /\ s.position.size = RZero
           /\ \A k \in 1..Len(open_positions') :
                  ~RLt(open_positions'[k].size, tiny)
      ]_vars

\* the end of a bar that sold the older of two positions whole and kept the newer
C13_Witness ==
    /\ pc = "bt_bar"
    /\ Len(open_positions) = 1
    /\ RGt(open_positions[1].size, RZero)
    /\ \E k \in 1..Len(closed_trades) :
           /\ closed_trades[k].timestamp_close = i
           /\ closed_trades[k].timestamp_open < open_positions[1].timestamp_open
           /\ RGt(closed_trades[k].size, RZero)

\* C14: on a series whose closes are all equal (PRICE_THRESHOLD not negative)
\* neither program opens a plan, buys or sells: the balance stays the initial
\* balance, the equity and the final balance returned equal it exactly, and the
\* maximum drawdown returned is 0.
C14_FlatSeriesDoesNothing ==
    (/\ pc \notin {"ledger"}
     /\ cfg.PRICE_THRESHOLD[1] >= 0
     /\ \A j, k \in 1..Len(closes) : closes[j] = closes[k])
    => /\ ~partial_plan.active
       /\ partial_plan.steps_left = 0
       /\ partial_plan.remaining_value = RZero
       /\ open_positions = << >>
       /\ closed_trades = << >>
       /\ trades = << >>
       /\ cycle.state = "none"
       /\ balance = R(cfg.INITIAL_BALANCE)
       /\ \A k \in 1..Len(equity_curve) : equity_curve[k] = R(cfg.INITIAL_BALANCE)
       /\ pc = "bt_done" =>
            /\ results.final_equity = R(cfg.INITIAL_BALANCE)
            /\ results.final_balance = R(cfg.INITIAL_BALANCE)
            /\ results.total_pnl = RZero
            /\ results.max_drawdown = RZero
            /\ results.closed_trades = << >>
       /\ pc = "sim_done" =>
            /\ results.final_balance = R(cfg.INITIAL_BALANCE)
            /\ results.total_pnl = RZero
            /\ results.num_trades = 0

\* a finished run over the longest flat series
C14_Witness ==
    /\ pc = "bt_done"
    /\ Len(closes) = MaxBars
    /\ \A j, k \in 1..Len(closes) : closes[j] = closes[k]
    /\ Len(results.equity_curve) = MaxBars + 1

C16_CurveLengths ==
    [][LET Value(positions, price) ==
               RSum([k \in 1..Len(positions) |-> RMul(positions[k].size, price)])
           n == Len(closes')
           grown == equity_curve' # equity_curve
       IN  /\ (grown /\ pc' # "bt_done") =>
                /\ pc = "bt_bar" /\ pc' = "bt_accumulate"
                /\ n = Len(closes) + 1
                /\ Len(equity_curve') = n
                /\ Len(buy_and_hold_curve') = n
                /\ SubSeq(equity_curve', 1, n - 1) = equity_curve
                /\ equity_curve'[n] =
                       RAdd(balance, Value(open_positions, R(closes'[n])))
                /\ balance' = balance
                /\ open_positions' = open_positions
                /\ closed_trades' = closed_trades
           /\ buy_and_hold_curve' # buy_and_hold_curve => (grown /\ pc' # "bt_done")
           /\ pc' = "bt_done" =>
                /\ n = Len(closes)
                /\ Len(results'.equity_curve) = n + 1
                /\ Len(results'.buy_and_hold_equity_curve) = n
                /\ SubSeq(results'.equity_curve, 1, n) = equity_curve
                /\ results'.equity_curve[n + 1] =
                       RAdd(balance, Value(open_positions, R(closes[n])))
                /\ results'.buy_and_hold_equity_curve = buy_and_hold_curve
      ]_vars

\* a finished run whose last bar bought: the last two entries of the curve differ
C16_Witness ==
    /\ pc = "bt_done"
    /\ Len(closes) = MaxBars
    /\ Len(results.equity_curve) = MaxBars + 1
    /\ results.equity_curve[MaxBars + 1] # results.equity_curve[MaxBars]
    /\ \E k \in 1..Len(open_positions) : open_positions[k].timestamp_open = MaxBars - 1

\* C17: when the simulation of one combination raises in a worker, run_optimization
\* still ends with the results of all other combinations of the sample collected
\* and returned; the failure costs that combination only.
C17_SiblingsSurviveAFailure ==
    pc \in {"opt_returned", "opt_raised", "main_except"} =>
        \A k \in (1..Len(combinations)) \ pool.faulty :
            \E j \in 1..Len(pool.returned) :
                /\ pool.returned[j].short_ma_length = combinations[k][1]
                /\ pool.returned[j].mid_ma_length = combinations[k][2]
                /\ pool.returned[j].long_ma_length = combinations[k][3]
                /\ pool.returned[j].reentry_gap = combinations[k][4]

\* C18: whatever the order in which the workers finish, run_optimization returns
\* one result per generated combination, none lost and none twice, each tagged
\* with the coin_name of the call; so the results returned are, as a multiset,
\* the same for every completion order.  (A call in which a simulation raises
\* returns nothing: C17.)
C18_OneResultPerCombination ==
    LET Row(k) == [short_ma_length |-> combinations[k][1],
                   mid_ma_length |-> combinations[k][2],
                   long_ma_length |-> combinations[k][3],
                   reentry_gap |-> combinations[k][4],
                   coin |-> pool.coin_name]
        n == Len(combinations)
    IN  /\ pool.faulty = {} => pc \notin {"opt_raised", "main_except"}
        /\ pc = "opt_pool" =>
             /\ Len(results) + Len(pool.finished) + Cardinality(pool.pending) = n
             /\ \A j \in 1..Len(results) :
                    /\ \E k \in 1..n : results[j] = Row(k)
                    /\ \A j2 \in 1..Len(results) : results[j2] = results[j] => j2 = j
        /\ pc = "opt_returned" =>
             /\ Len(pool.returned) = n
             /\ \A k \in 1..n :
                    Cardinality({j \in 1..n : pool.returned[j] = Row(k)}) = 1
             /\ \A j \in 1..n : pool.returned[j].coin = pool.coin_name

\* a call that returned its four results in the reverse of the order of submission
C18_Witness ==
    /\ pc = "opt_returned"
    /\ Len(combinations) = 4
    /\ Len(pool.returned) = 4
    /\ \A j \in 1..4 : pool.returned[j].long_ma_length = combinations[5 - j][3]
    /\ \A j \in 1..4 : pool.returned[j].short_ma_length = combinations[5 - j][1]
    /\ \A j \in 1..4 : pool.returned[j].mid_ma_length = combinations[5 - j][2]
    /\ pool.returned[1].coin = "ETHUSDT"

\* C20: the list combinations of run_optimization holds exactly the tuples
\* (short, mid, long, gap) with short, mid, long values of MA_LENGTHS,
\* short < mid < long, and gap a value of REENTRY_GAP_VALUES, each once; for the
\* candidate lengths [10, 20, 30] the only triple of lengths is (10, 20, 30).
\* The same is checked of the grid the script's own two lists generate.
C20_GridIsTheOrderedTriples ==
    LET Values(list) == {list[k] : k \in 1..Len(list)}
        Expected(lengths, gaps) ==
            {t \in Values(lengths) \X Values(lengths) \X Values(lengths) \X Values(gaps) :
                t[1] < t[2] /\ t[2] < t[3]}
        Exact(list, lengths, gaps) ==
            /\ \A k \in 1..Len(list) : list[k] \in Expected(lengths, gaps)
            /\ \A t \in Expected(lengths, gaps) :
                   Cardinality({k \in 1..Len(list) : list[k] = t}) = 1
        Triples(list) == {<<list[k][1], list[k][2], list[k][3]>> : k \in 1..Len(list)}
    IN  /\ pc \in {"opt_pool", "opt_returned", "opt_raised", "main_except"} =>
             /\ Exact(combinations, cfg.MA_LENGTHS, cfg.REENTRY_GAP_VALUES)
             /\ Values(cfg.MA_LENGTHS) = {10, 20, 30} =>
                    Triples(combinations) = {<<10, 20, 30>>}
        /\ pc = "opt_call" =>
             LET script == Combinations(ScriptGrid.MA_LENGTHS, ScriptGrid.REENTRY_GAP_VALUES)
             IN  /\ Exact(script, ScriptGrid.MA_LENGTHS, ScriptGrid.REENTRY_GAP_VALUES)
                 /\ Len(script) = 168

\* the grid of the candidate lengths [10, 20, 30] with three gaps, handed to the pool
C20_Witness ==
    /\ pc = "opt_pool"
    /\ cfg.MA_LENGTHS = <<10, 20, 30>>
    /\ combinations = <<<<10, 20, 30, 10>>, <<10, 20, 30, 12>>, <<10, 20, 30, 15>>>>
    /\ pool.pending = {1, 2, 3}

\* C19: every call of simulate_strategy starts from its own fresh state (balance
\* INITIAL_BALANCE, no open position, Idle plan, no trade record), no step of a
\* call writes the DataFrame the caller passed, and the dict returned depends on
\* the DataFrame and the parameter tuple only: a call returns what every earlier
\* call with the same tuple on the same DataFrame returned, whatever calls ran in
\* between.
C19_CallsShareNothing ==
    [][/\ data' = data
       /\ (pc \in {"caller", "sim_done"} /\ pc' = "sim_bar") =>
            /\ balance' = R(cfg'.INITIAL_BALANCE)
            /\ open_positions' = << >>
            /\ partial_plan' = [active |-> FALSE, steps_left |-> 0,
                                remaining_value |-> RZero]
            /\ trades' = << >>
            /\ closes' = << >>
       /\ pc' = "sim_done" =>
            /\ Len(closes') = Len(data.close)
            /\ \A k \in 1..Len(closes') : closes'[k] = data.close[k]
            /\ \A k \in 1..Len(earlier') :
                   earlier'[k].params = <<cfg'.short_ma_length, cfg'.mid_ma_length,
                                           cfg'.long_ma_length, cfg'.reentry_gap>>
                       => earlier'[k].result = results'
      ]_vars

\* a third call that traded and returned what the first call returned, with a
\* call of other parameters and another outcome in between
C19_Witness ==
    /\ pc = "sim_done"
    /\ Len(earlier) = 2
    /\ earlier[1].params = <<cfg.short_ma_length, cfg.mid_ma_length,
                             cfg.long_ma_length, cfg.reentry_gap>>
    /\ earlier[2].params # earlier[1].params
    /\ earlier[2].result.final_balance # results.final_balance
    /\ results.num_trades > 0
    /\ results.final_balance # R(cfg.INITIAL_BALANCE)
    /\ results = earlier[1].result

\* C27: in simulate_strategy the bar that opens a plan buys nothing; every
\* later bar on which the plan is active buys exactly once and counts one
\* step down; an active plan has between 1 and ACCUMULATION_STEPS steps left,
\* has bought once per bar since it was opened, and so is idle after the bar
\* ACCUMULATION_STEPS past its opening; it goes idle earlier only in the
\* crossdown step.
C27_PlanBuysOncePerBarUntilDone ==
    [][ /\ (pc = "sim_entry" /\ ~partial_plan.active /\ partial_plan'.active)
           => /\ trades' = trades
              /\ open_positions' = open_positions
              /\ balance' = balance
              /\ partial_plan'.steps_left = cfg.ACCUMULATION_STEPS
        /\ (pc = "sim_accumulate" /\ partial_plan.active)
           => /\ Len(trades') = Len(trades) + 1
              /\ trades'[Len(trades')].action = "buy"
              /\ trades'[Len(trades')].timestamp = i
              /\ Len(open_positions') = Len(open_positions) + 1
              /\ partial_plan'.steps_left = partial_plan.steps_left - 1
              /\ partial_plan'.active = (partial_plan'.steps_left > 0)
        /\ (pc = "sim_accumulate" /\ ~partial_plan.active)
           => trades' = trades /\ partial_plan' = partial_plan
        /\ partial_plan'.active
           => /\ 1 <= partial_plan'.steps_left
              /\ partial_plan'.steps_left <= cfg.ACCUMULATION_STEPS
              /\ partial_plan'.steps_left = cfg.ACCUMULATION_STEPS - cycle'.buys
              /\ cycle'.buys = (IF pc' = "sim_accumulate"
                                THEN i' - cycle'.opened_at - 1
                                ELSE i' - cycle'.opened_at)
              /\ i' < cycle'.opened_at + cfg.ACCUMULATION_STEPS
                 \/ (pc' = "sim_accumulate"
                     /\ i' = cycle'.opened_at + cfg.ACCUMULATION_STEPS)
        /\ (partial_plan.active /\ ~partial_plan'.active)
           => \/ pc = "sim_crossdown" /\ cross_down'
              \/ /\ pc = "sim_accumulate"
                 /\ cycle'.buys = cfg.ACCUMULATION_STEPS
                 /\ i = cycle.opened_at + cfg.ACCUMULATION_STEPS ]_vars

\* a plan opened on one bar has made its last buy ACCUMULATION_STEPS bars later
C27_Witness ==
    /\ pc = "sim_crossdown"
    /\ ~partial_plan.active
    /\ cycle.state = "completed"
    /\ cycle.buys = cfg.ACCUMULATION_STEPS
    /\ i = cycle.opened_at + cfg.ACCUMULATION_STEPS
    /\ Len(trades) >= 2
    /\ trades[Len(trades)].timestamp = i
    /\ trades[Len(trades) - 1].timestamp = i - 1

\* C28: in every state of the backtest function the number of open positions
\* is at most MAX_OPEN_TRADES, and so is the reported max_open_positions.
C28_OpenPositionsWithinTheCap ==
    /\ Len(open_positions) <= cfg.MAX_OPEN_TRADES
    /\ max_open_positions <= cfg.MAX_OPEN_TRADES

\* C29: a buy or a sell executed at the price p never raises the equity marked
\* at p, and leaves it as it was when SLIPPAGE and FEE_RATE are both zero.
C29_TradeNeverRaisesEquity ==
    [][pc = "ledger" =>
         LET bought == Len(open_positions') > Len(open_positions)
             sold == Len(closed_trades') > Len(closed_trades)
             p == IF bought THEN open_positions'[Len(open_positions')].buy_price
                  ELSE IF sold THEN closed_trades'[Len(closed_trades')].sell_price
                  ELSE R(4)
             before == compute_equity(balance, open_positions, p)
             after == compute_equity(balance', open_positions', p)
         IN  /\ bought \/ sold \/ (balance' = balance /\ open_positions' = open_positions)
             /\ RLe(after, before)
             /\ (cfg.SLIPPAGE = RZero /\ cfg.FEE_RATE = RZero) => after = before
      ]_vars

\* a sell at a gain, with slippage and fee charged, while another position
\* stays open
C29_Witness ==
    /\ pc = "ledger"
    /\ cfg.SLIPPAGE # RZero /\ cfg.FEE_RATE # RZero
    /\ last_call.fn = "do_partial_sell"
    /\ Len(open_positions) >= 1
    /\ Len(closed_trades) >= 1
    /\ RGt(closed_trades[Len(closed_trades)].sell_price,
           closed_trades[Len(closed_trades)].buy_price)

\* C25: for every close sequence and window L >= 1, the simple moving average
\* calculate_ma returns is not ready (NaN) at the indices 0..L-2 and is the
\* mean of closes[t-L+1..t] at every index t >= L-1; over 1, 2, 3, 4, 5 with
\* L = 3 it is not ready at 0 and 1 and is 2 at index 2.
C25_SmaIsTheTrailingMean ==
    (pc = "ma_returned" /\ lower(cfg.ma_type) = "sma") =>
        LET L == cfg.window
        IN  /\ Len(df_ma.short_ma) = Len(closes)
            /\ \A t \in 0..(Len(closes) - 1) :
                 IF t <= L - 2 THEN isna(short_ma(t))
                 ELSE /\ ~isna(short_ma(t))
                      /\ RMul(short_ma(t), R(L))
                           = RSum([k \in 1..L |-> close(t - L + k)])
            /\ (closes = <<1, 2, 3, 4, 5>> /\ L = 3)
                 => /\ isna(short_ma(0)) /\ isna(short_ma(1))
                    /\ short_ma(2) = R(2)

\* the simple average of window 3 returned for the closes 1, 2, 3, 4, 5 by
\* calculate_ma of Crypto_Trade_Backtest.py
C25_Witness ==
    /\ pc = "ma_returned"
    /\ last_call.fn = "Crypto_Trade_Backtest.calculate_ma"
    /\ cfg.ma_type = "sma" /\ cfg.window = 3
    /\ closes = <<1, 2, 3, 4, 5>>
    /\ short_ma(2) = R(2) /\ short_ma(4) = R(4)

\* C26: in every variant of calculate_ma a kind other than SMA or EMA ends in
\* an error (ValueError), never in a series or in an absent value.
C26_UnknownKindIsAnError ==
    (pc # "ma_call" /\ lower(cfg.ma_type) \notin {"sma", "ema"}) => pc = "ma_raised"

\* C30 as stated: in every state of backtest_strategy the account is either in
\* cash (position = 0) or invested (position > 0 and balance = 0), and the
\* trade log alternates BUY, SELL from a BUY.
C30_CashOrInvestedAlways ==
    (pc \in {"ovf_bar", "ovf_done"}) =>
        /\ \/ position_held = RZero
           \/ RGt(position_held, RZero) /\ balance = RZero
        /\ \A k \in 1..Len(trade_log) :
             trade_log[k].action = (IF k % 2 = 1 THEN "BUY" ELSE "SELL")

\* C30: between the bars of the loop of backtest_strategy the account is
\* either in cash (position = 0, balance > 0) or invested (position > 0 and
\* balance = 0) and the trade log alternates BUY, SELL from a BUY, ending with
\* BUY exactly when invested; at the return the log, if not empty, ends with
\* SELL and the balance returned is cash: the balance of that SELL, the
\* holding valued at the last close when the loop ended invested.
C30_CashOrInvestedInTheLoop ==
    /\ pc \in {"ovf_bar", "ovf_done"} =>
         /\ \A k \in 1..Len(trade_log) :
              trade_log[k].action = (IF k % 2 = 1 THEN "BUY" ELSE "SELL")
         /\ RGe(position_held, RZero) /\ RGe(balance, RZero)
    /\ pc = "ovf_bar" =>
         /\ \/ position_held = RZero /\ RGt(balance, RZero)
            \/ RGt(position_held, RZero) /\ balance = RZero
         /\ RGt(position_held, RZero) <=> (Len(trade_log) % 2 = 1)
    /\ pc = "ovf_done" =>
         /\ Len(trade_log) % 2 = 0
         /\ results[1].final_balance = balance
         /\ RGt(balance, RZero)
         /\ trade_log # << >> => balance = trade_log[Len(trade_log)].balance
         /\ RGt(position_held, RZero) =>
              /\ trade_log # << >>
              /\ trade_log[Len(trade_log)].timestamp = Len(closes) - 1
              /\ balance = RMul(position_held, close(Len(closes) - 1))

\* a run that bought, sold, bought again and returned with the last holding
\* valued at the last close
C30_Witness ==
    /\ pc = "ovf_done"
    /\ Len(trade_log) = 4
    /\ RGt(position_held, RZero)
    /\ trade_log[3].timestamp < Len(closes) - 1

\* C21: over strictly increasing timestamps and every draw, a sample that
\* get_random_sample returns is a contiguous run of rows of the input, at
\* least 2 of them, whose last timestamp is at least MIN_PERIOD_DAYS after its
\* first; an input of fewer than 2 rows gets None.
C21_SampleIsALongEnoughWindow ==
    pc = "rri_check" =>
        LET ts == data.timestamp
            st == sample.timestamp
        IN  /\ Len(ts) < 2 => sample.returned = "None"
            /\ sample.returned = "sample" =>
                 /\ Len(st) >= 2
                 /\ \E a \in 1..Len(ts) :
                      /\ a + Len(st) - 1 <= Len(ts)
                      /\ \A k \in 1..Len(st) : st[k] = ts[a + k - 1]
                 /\ st[Len(st)] - st[1] >= cfg.MIN_PERIOD_DAYS

\* a sample that stops before the last row of the input and starts after the
\* first
C21_Witness ==
    /\ pc = "rri_check"
    /\ sample.returned = "sample"
    /\ sample.start_idx > 0
    /\ sample.end_idx < Len(data.timestamp) - 1
    /\ Len(sample.timestamp) = sample.end_idx - sample.start_idx + 1

\* C22: get_random_sample returns None when no row lies MIN_PERIOD_DAYS or
\* more after the start it drew; run_random_iterations makes no call of
\* run_optimization for an iteration whose sample is None or has fewer rows
\* than the minimum, adds nothing to its results, and goes on to the next
\* iteration.
C22_RejectedSampleIsSkipped ==
    [][pc = "rri_check" =>
         LET ts == data.timestamp
             s == sample.start_idx
             none_far == \A j \in (s + 2)..Len(ts) : ts[j] - ts[s + 1] < cfg.MIN_PERIOD_DAYS
             rejected == sample.returned = "None" \/ Len(sample.timestamp) < cfg.MIN_ROWS
         IN  /\ none_far => sample.returned = "None"
             /\ rejected =>
                  /\ last_call'.fn # "run_optimization"
                  /\ aggregated_results' = aggregated_results
                  /\ iteration' = iteration + 1
                  /\ pc' = "rri_sample"
             /\ ~rejected =>
                  /\ last_call'.fn = "run_optimization"
                  /\ Len(aggregated_results') = Len(aggregated_results) + 1
      ]_vars

\* the first two iterations were skipped and the third ran on its sample
C22_Witness ==
    /\ pc = "rri_done"
    /\ Len(data.timestamp) >= 2
    /\ Len(aggregated_results) = 1
    /\ aggregated_results[1].iteration = 2
    /\ sample.returned = "sample"

\* C23: aggregate_overall_results puts every result into exactly one group
\* keyed by (short, mid, long, reentry gap, coin); a group's run count is the
\* number of results with its key and the counts sum to the number of
\* results; a group's total is the sum over its results and its average the
\* total divided by the count; the rows are ranked in non-increasing order of
\* average gain (average PnL over the initial balance).
C23_GroupsCountsAveragesRanking ==
    (pc = "agg_done" /\ aggregated_results # << >>) =>
        LET rows == aggregated_results
            Key(r) == <<r.short_ma_length, r.mid_ma_length, r.long_ma_length,
                        r.reentry_gap, r.coin>>
            With(key) == {k \in 1..Len(rows) : Key(rows[k]) = key}
            RECURSIVE Total(_, _)
            Total(S, field) ==
                IF S = {} THEN RZero
                ELSE LET k == CHOOSE x \in S : TRUE
                     IN  RAdd(rows[k][field], Total(S \ {k}, field))
            RECURSIVE Trials(_)
            Trials(g) == IF g = 0 THEN 0 ELSE grouped[g].num_trials + Trials(g - 1)
            gain(g) == RMul(RDiv(grouped[g].average_pnl, R(1000)), R(100))
        IN  /\ \A k \in 1..Len(rows) :
                 Cardinality({g \in 1..Len(grouped) : Key(grouped[g]) = Key(rows[k])}) = 1
            /\ \A g \in 1..Len(grouped) :
                 LET members == With(Key(grouped[g]))
                     n == grouped[g].num_trials
                 IN  /\ n = Cardinality(members)
                     /\ n >= 1
                     /\ grouped[g].total_final_balance = Total(members, "final_balance")
                     /\ grouped[g].total_pnl = Total(members, "total_pnl")
                     /\ RMul(grouped[g].average_final_balance, R(n))
                          = grouped[g].total_final_balance
                     /\ RMul(grouped[g].average_pnl, R(n)) = grouped[g].total_pnl
            /\ Trials(Len(grouped)) = Len(rows)
            /\ \A g, h \in 1..Len(grouped) : g < h => RGe(gain(g), gain(h))

\* three groups ranked: a group of two results between two groups of one
C23_Witness ==
    /\ pc = "agg_done"
    /\ Len(aggregated_results) = 4
    /\ Len(grouped) = 3
    /\ grouped[2].num_trials = 2
    /\ RGt(grouped[1].average_pnl, grouped[2].average_pnl)
    /\ RGt(grouped[2].average_pnl, grouped[3].average_pnl)
    /\ RGt(grouped[2].total_final_balance, grouped[1].total_final_balance)

\* C24: every row of the ranked table carries the profit factor of its group,
\* (sum of the positive PnLs) / -(sum of the negative PnLs), 6 for the PnLs
\* +10, +20, -5, and the undefined sentinel when the group has no losing PnL.
C24_ProfitFactorOfAGroup ==
    (pc = "agg_done" /\ aggregated_results # << >>) =>
        \A g \in 1..Len(grouped) :
            /\ "profit_factor" \in DOMAIN grouped[g]
            /\ LET members == SelectSeq(aggregated_results,
                                  LAMBDA r : /\ r.short_ma_length = grouped[g].short_ma_length
                                             /\ r.mid_ma_length = grouped[g].mid_ma_length
                                             /\ r.long_ma_length = grouped[g].long_ma_length
                                             /\ r.reentry_gap = grouped[g].reentry_gap
                                             /\ r.coin = grouped[g].coin)
                   gains == SelectSeq(members, LAMBDA r : RGt(r.total_pnl, RZero))
                   losses == SelectSeq(members, LAMBDA r : RLt(r.total_pnl, RZero))
                   won == RSum([k \in 1..Len(gains) |-> gains[k].total_pnl])
                   lost == RSum([k \in 1..Len(losses) |-> losses[k].total_pnl])
               IN  grouped[g].profit_factor
                     = (IF losses = << >> THEN NaN ELSE RDiv(won, RNeg(lost)))

====
